---- MODULE Spec2Model ----
(***************************************************************************)
(* A model of the bailey toolchain: the let-normalizer's flat program, the *)
(* reference-counted heap, the call/block stack and the iterative          *)
(* interpreter (src/src/ir_let/interpreter/simple_eval.rs).                *)
(*                                                                         *)
(* Indices (block_index, instruction_index, function_index, offsets, heap  *)
(* addresses) are 0-based as in the source; TLA+ sequences are 1-based, so *)
(* element k of a Vec v is v[k + 1].                                       *)
(***************************************************************************)
EXTENDS Integers, Sequences, FiniteSets, TLC

VARIABLES
    program,            \* ProgramEvaluator.program (read-only)
    memory,             \* Heap.memory : HeapAddress -> RefCountedHeapValue
    heap_next_address,  \* Heap.heap_next_address
    frames,             \* Stack.frames : Vec<CallStackFrame>
    program_counter,    \* ProgramEvaluator.program_counter
    fault,              \* the panic that aborted the run, or NoFault
    result,             \* the value run() returned, or None
    overflow_checks,    \* build mode: TRUE = arithmetic overflow panics (debug)
    other,              \* a second ProgramEvaluator on the same program (its
                        \* machine, program counter and result), or None
    client              \* the client of the heap, or of the stack, on its
                        \* own: what its calls returned (None while an
                        \* evaluator runs)

vars == <<program, memory, heap_next_address, frames, program_counter,
          fault, result, overflow_checks, other, client>>

\* ------------------------------------------------------------------------
\* Bounds of the model
\* ------------------------------------------------------------------------

\* fib_test(n) is run for n in 0..MaxFib
MaxFib == 10

\* calls of Heap::alloc in a run of the heap on its own
MaxAllocs == 3

\* block frames on the stack, and bindings in them, in a run of the stack on
\* its own
MaxStack == 3

\* ------------------------------------------------------------------------
\* Generic helpers
\* ------------------------------------------------------------------------

None == [none |-> TRUE]

\* Option::Some, where the value has to be told from None
Some(v) == [some |-> v]

NoFault == "none"

EmptyMap == [n \in {} |-> 0]

MapPut(f, k, v) == [n \in DOMAIN f \cup {k} |-> IF n = k THEN v ELSE f[n]]

Last(s) == s[Len(s)]

Front(s) == SubSeq(s, 1, Len(s) - 1)

RECURSIVE SetToSeq(_)
SetToSeq(S) ==
    IF S = {} THEN <<>>
    ELSE LET x == CHOOSE y \in S : TRUE IN <<x>> \o SetToSeq(S \ {x})

Reverse(s) == [k \in 1..Len(s) |-> s[Len(s) + 1 - k]]

\* The iteration order of a std HashMap/HashSet over the keys S is
\* unspecified: hash_flip selects one of two opposite orders.
IterOrder(S, hash_flip) == IF hash_flip THEN Reverse(SetToSeq(S)) ELSE SetToSeq(S)

\* i32 arithmetic (HeapValue::Int). The checker's integers are 32-bit, so the
\* sum is never formed when it would leave the i32 range.
I32Max == 2147483647
I32Min == (-I32Max) - 1

AddOverflows(a, b) ==
    \/ b > 0 /\ a > I32Max - b
    \/ b < 0 /\ a < I32Min - b

\* a + b modulo 2^32, as a two's-complement i32
WrappingAdd(a, b) ==
    IF ~AddOverflows(a, b) THEN a + b
    ELSE IF b > 0 THEN (a + I32Min) + (b + I32Min)
    ELSE ((a + I32Max) + 1) + ((b + I32Max) + 1)

SubOverflows(a, b) ==
    \/ b < 0 /\ a > I32Max + b
    \/ b > 0 /\ a < I32Min + b

\* a - b modulo 2^32, as a two's-complement i32
WrappingSub(a, b) ==
    IF ~SubOverflows(a, b) THEN a - b
    ELSE IF b < 0 THEN (a + I32Min) - ((b + I32Max) + 1)
    ELSE ((a + I32Max) + 1) - (b + I32Min)

\* ------------------------------------------------------------------------
\* Flat program (src/src/ir_let/let_expr.rs)
\* ------------------------------------------------------------------------

TargetAddress(f, b, i) ==
    [function_index |-> f, block_index |-> b, instruction_index |-> i]

\* TargetAddress::next
next(address) == [address EXCEPT !.instruction_index = @ + 1]

EnterBlock == [kind |-> "EnterBlock"]
ExitBlock(v) == [kind |-> "ExitBlock", var_name |-> v]
Assignment(n, d) == [kind |-> "Assignment", name |-> n, definition |-> d]

DefVar(v) == [d |-> "Var", var_name |-> v]
Literal(c) == [d |-> "Literal", constant |-> c]
ConstInt(v) == [tag |-> "Int", value |-> v]
ConstBool(v) == [tag |-> "Bool", value |-> v]
AllocClosure(n, args, free, body) ==
    [d |-> "Fun", name |-> n, arg_names |-> args, free_names |-> free, body |-> body]
BinOp(op, l, r) == [d |-> "BinOp", op |-> op, lhs |-> l, rhs |-> r]
Tuple(args) == [d |-> "Tuple", args |-> args]
Set(t, i, v) == [d |-> "Set", tuple |-> t, index |-> i, new_value |-> v]
Call(f, args) == [d |-> "Call", func |-> f, args |-> args]
If(c, t, e) ==
    [d |-> "If", condition |-> c, branch_success |-> t, branch_failure |-> e]

IsControl(def) == def.d \in {"Call", "If"}

\* Program::get_instruction; NoInstruction stands for the panic of an
\* out-of-range index
NoInstruction == [kind |-> "invalid"]

HasInstruction(p, address) ==
    /\ address.function_index < Len(p.functions)
    /\ address.block_index <
         Len(p.functions[address.function_index + 1].blocks)
    /\ address.instruction_index <
         Len(p.functions[address.function_index + 1]
               .blocks[address.block_index + 1].instructions)

get_instruction(p, address) ==
    IF HasInstruction(p, address)
    THEN p.functions[address.function_index + 1]
           .blocks[address.block_index + 1]
           .instructions[address.instruction_index + 1]
    ELSE NoInstruction

\* ------------------------------------------------------------------------
\* Heap values (src/src/heap_value.rs)
\* ------------------------------------------------------------------------

HeapInt(v) == [tag |-> "Int", value |-> v]
HeapBool(v) == [tag |-> "Bool", value |-> v]
HeapTuple(fields) == [tag |-> "Tuple", field_values |-> fields]
HeapClosure(n, args, env, body) ==
    [tag |-> "Closure", name |-> n, arg_names |-> args,
     environment |-> env, body |-> body]

RefCountedHeapValue(rc, v) == [refcount |-> rc, heap_value |-> v]

\* The addresses a heap value holds, one per occurrence: the fields of a
\* tuple in order, the environment values of a closure (HashMap::values)
Contained(v) ==
    IF v.tag = "Tuple" THEN v.field_values
    ELSE IF v.tag = "Closure"
    THEN LET names == SetToSeq(DOMAIN v.environment)
         IN [k \in 1..Len(names) |-> v.environment[names[k]]]
    ELSE <<>>

\* ------------------------------------------------------------------------
\* The machine: heap and stack threaded through one instruction.
\*   m = [memory, heap_next_address, frames, fault]
\* Every operation is the identity once a fault (panic) has been raised.
\* ------------------------------------------------------------------------

Machine(mem, nxt, fr, flt) ==
    [memory |-> mem, heap_next_address |-> nxt, frames |-> fr, fault |-> flt]

Panic(m, msg) == IF m.fault = NoFault THEN [m EXCEPT !.fault = msg] ELSE m

Ok(m) == m.fault = NoFault

\* A value-returning operation returns [m, value]
Ret(m, v) == [m |-> m, value |-> v]

\* ------------------------------------------------------------------------
\* Heap (src/src/heap.rs)
\* ------------------------------------------------------------------------

\* A faulty alloc: the cell is inserted at the lowest address that is not a
\* key of the heap
alloc_lowest_free(m, heap_value) ==
    IF ~Ok(m) THEN Ret(m, 0)
    ELSE LET address == CHOOSE a \in 0..m.heap_next_address :
                            /\ a \notin DOMAIN m.memory
                            /\ \A b \in 0..(a - 1) : b \in DOMAIN m.memory
         IN Ret([m EXCEPT
                   !.heap_next_address = @ + 1,
                   !.memory = MapPut(m.memory, address,
                                     RefCountedHeapValue(0, heap_value))],
                address)

\* Heap::alloc: the cell is inserted with refcount 0 at heap_next_address,
\* which is returned and then advanced by one
alloc(m, heap_value) ==
    IF ~Ok(m) THEN Ret(m, 0)
    ELSE LET address == m.heap_next_address
         IN Ret([m EXCEPT
                   !.heap_next_address = address + 1,
                   !.memory = MapPut(m.memory, address,
                                     RefCountedHeapValue(0, heap_value))],
                address)

\* Heap::deref: indexing a missing key panics
deref(m, heap_address) ==
    IF ~Ok(m) THEN Ret(m, None)
    ELSE IF heap_address \notin DOMAIN m.memory
    THEN Ret(Panic(m, "invalid pointer"), None)
    ELSE Ret(m, m.memory[heap_address].heap_value)

\* HeapValue::check_int / check_bool / check_tuple / check_closure applied
\* to the outcome r of deref
check(r, tag, msg) ==
    IF ~Ok(r.m) THEN r
    ELSE IF r.value.tag # tag THEN Ret(Panic(r.m, msg), None)
    ELSE r

check_int(r) == check(r, "Int", "expected int")
check_bool(r) == check(r, "Bool", "expected bool")
check_tuple(r) == check(r, "Tuple", "expected tuple")
check_closure(r) == check(r, "Closure", "expected closure")

\* Heap::inc_refcount. refcount is a u32: a value v >= 2^31 is held as
\* v - 2^32 (the same bit pattern), so u32::MAX is -1.
inc_refcount(m, heap_address) ==
    IF ~Ok(m) THEN m
    ELSE IF heap_address \notin DOMAIN m.memory THEN Panic(m, "invalid pointer")
    ELSE IF m.memory[heap_address].refcount = -1
    THEN IF overflow_checks THEN Panic(m, "attempt to add with overflow")
         ELSE [m EXCEPT !.memory[heap_address].refcount = 0]
    ELSE [m EXCEPT !.memory[heap_address].refcount = @ + 1]

MemoryRemove(mem, a) == [x \in DOMAIN mem \ {a} |-> mem[x]]

RECURSIVE dec_refcount(_, _), free(_, _), dec_each(_, _)

\* A faulty loop: an address that occurs several times is decremented once
RECURSIVE dec_each_distinct(_, _)
dec_each_distinct(m, addrs) ==
    IF addrs = <<>> \/ ~Ok(m) THEN m
    ELSE dec_each_distinct(dec_refcount(m, Head(addrs)),
                           SelectSeq(Tail(addrs), LAMBDA x : x # Head(addrs)))

\* for addr in addrs { self.dec_refcount(addr) }
dec_each(m, addrs) ==
    IF addrs = <<>> \/ ~Ok(m) THEN m
    ELSE dec_each(dec_refcount(m, Head(addrs)), Tail(addrs))

\* A faulty free: the cell is removed and the addresses it held keep their
\* counts
free_without_children(m, heap_address) ==
    IF ~Ok(m) THEN m
    ELSE IF heap_address \notin DOMAIN m.memory
    THEN Panic(m, "attempt to free invalid pointer")
    ELSE [m EXCEPT !.memory = MemoryRemove(m.memory, heap_address)]

\* Heap::free: remove the cell, then decrement every address it held
free(m, heap_address) ==
    IF ~Ok(m) THEN m
    ELSE IF heap_address \notin DOMAIN m.memory
    THEN Panic(m, "attempt to free invalid pointer")
    ELSE LET destroying_value == m.memory[heap_address].heap_value
         IN dec_each([m EXCEPT !.memory = MemoryRemove(m.memory, heap_address)],
                     Contained(destroying_value))

\* Heap::dec_refcount: refcount -= 1 on a u32 (0 - 1 panics when overflow
\* checks are on and wraps to u32::MAX otherwise); the cell is freed when
\* the new count is 0
dec_refcount(m, heap_address) ==
    IF ~Ok(m) THEN m
    ELSE IF heap_address \notin DOMAIN m.memory THEN Panic(m, "invalid pointer")
    ELSE IF m.memory[heap_address].refcount = 0
    THEN IF overflow_checks THEN Panic(m, "attempt to subtract with overflow")
         ELSE [m EXCEPT !.memory[heap_address].refcount = -1]
    ELSE LET m1 == [m EXCEPT !.memory[heap_address].refcount = @ - 1]
         IN IF m1.memory[heap_address].refcount = 0
            THEN free(m1, heap_address)
            ELSE m1

\* ------------------------------------------------------------------------
\* Stack (src/src/stack.rs)
\* ------------------------------------------------------------------------

ReturnInfo(name, address) ==
    [result_variable |-> name, return_address |-> address]

BlockFrame(return_info) ==
    [values |-> <<>>, variable_offsets |-> EmptyMap, return_info |-> return_info]

\* A faulty CallStackFrame::new: the return info is dropped
CallStackFrame_without_return_info(return_info) ==
    [nested_block_frames |-> <<BlockFrame(None)>>]

CallStackFrame(return_info) ==
    [nested_block_frames |-> <<BlockFrame(return_info)>>]

\* Stack::new: one call frame holding the root block frame
StackNew == <<CallStackFrame(None)>>

\* Option<HeapAddress>::None (addresses are u32, so never negative)
NotFound == 0 - 1

\* BlockFrame::lookup_var: Some(address) as the address, None as NotFound
block_lookup_var(block, name) ==
    IF name \in DOMAIN block.variable_offsets
    THEN block.values[block.variable_offsets[name] + 1]
    ELSE NotFound

\* BlockFrame::set_var
block_set_var(block, name, value) ==
    [block EXCEPT
       !.values = Append(@, value),
       !.variable_offsets = MapPut(@, name, Len(block.values))]

\* CallStackFrame::lookup_var: innermost block frame first
RECURSIVE frame_lookup_var(_, _, _)
frame_lookup_var(blocks, k, name) ==
    IF k = 0 THEN NotFound
    ELSE IF block_lookup_var(blocks[k], name) # NotFound
    THEN block_lookup_var(blocks[k], name)
    ELSE frame_lookup_var(blocks, k - 1, name)

\* A faulty lookup: a name the top call frame does not bind is looked up in
\* the call frames below it
RECURSIVE lookup_var_below(_, _, _)
lookup_var_below(m, f, name) ==
    IF f = 0 THEN Ret(Panic(m, "could not find variable in stack frame"), 0)
    ELSE LET blocks == m.frames[f].nested_block_frames
             found == frame_lookup_var(blocks, Len(blocks), name)
         IN IF found = NotFound THEN lookup_var_below(m, f - 1, name)
            ELSE Ret(m, found)

lookup_var_dynamic_scope(m, name) ==
    IF ~Ok(m) THEN Ret(m, 0)
    ELSE IF m.frames = <<>> THEN Ret(Panic(m, "stack should not be empty"), 0)
    ELSE lookup_var_below(m, Len(m.frames), name)

\* Stack::lookup_var
lookup_var(m, name) ==
    IF ~Ok(m) THEN Ret(m, 0)
    ELSE IF m.frames = <<>> THEN Ret(Panic(m, "stack should not be empty"), 0)
    ELSE LET blocks == Last(m.frames).nested_block_frames
             found == frame_lookup_var(blocks, Len(blocks), name)
         IN IF found = NotFound
            THEN Ret(Panic(m, "could not find variable in stack frame"), 0)
            ELSE Ret(m, found)

\* Stack::set_var_no_refcount
set_var_no_refcount(m, name, value) ==
    IF ~Ok(m) THEN m
    ELSE IF m.frames = <<>> THEN Panic(m, "stack should not be empty")
    ELSE IF Last(m.frames).nested_block_frames = <<>>
    THEN Panic(m, "expected active block")
    ELSE LET f == Len(m.frames)
             b == Len(m.frames[f].nested_block_frames)
         IN [m EXCEPT !.frames[f].nested_block_frames[b] =
                          block_set_var(@, name, value)]

\* A faulty enter_function: the callee's frame is pushed as a block frame of
\* the caller's call frame
enter_function_as_block(m, return_info) ==
    IF ~Ok(m) THEN m
    ELSE [m EXCEPT !.frames[Len(m.frames)].nested_block_frames =
                       Append(@, BlockFrame(return_info))]

\* Stack::enter_function
enter_function(m, return_info) ==
    IF ~Ok(m) THEN m
    ELSE [m EXCEPT !.frames = Append(@, CallStackFrame(return_info))]

\* Stack::enter_block
enter_block(m, return_info) ==
    IF ~Ok(m) THEN m
    ELSE IF m.frames = <<>> THEN Panic(m, "stack should not be empty")
    ELSE [m EXCEPT !.frames[Len(m.frames)].nested_block_frames =
                       Append(@, BlockFrame(return_info))]

\* A faulty exit_block: the call frame stays on the stack when its last
\* block frame is popped
exit_block_keeps_call_frame(m) ==
    IF ~Ok(m) THEN Ret(m, None)
    ELSE IF m.frames = <<>> THEN Ret(Panic(m, "stack should not be empty"), None)
    ELSE IF Last(m.frames).nested_block_frames = <<>>
    THEN Ret(Panic(m, "exiting block while no more block frames"), None)
    ELSE LET f == Len(m.frames)
             blocks == m.frames[f].nested_block_frames
         IN IF f = 1 /\ Len(blocks) = 1
            THEN Ret([m EXCEPT !.frames = Front(m.frames)], Last(blocks))
            ELSE Ret([m EXCEPT !.frames[f].nested_block_frames = Front(blocks)],
                     Last(blocks))

\* Stack::exit_block: pops the innermost block frame and, when that leaves
\* the call frame without block frames, the call frame too
exit_block(m) ==
    IF ~Ok(m) THEN Ret(m, None)
    ELSE IF m.frames = <<>> THEN Ret(Panic(m, "stack should not be empty"), None)
    ELSE IF Last(m.frames).nested_block_frames = <<>>
    THEN Ret(Panic(m, "exiting block while no more block frames"), None)
    ELSE LET f == Len(m.frames)
             blocks == m.frames[f].nested_block_frames
             frame == Last(blocks)
         IN IF Len(blocks) = 1
            THEN Ret([m EXCEPT !.frames = Front(m.frames)], frame)
            ELSE Ret([m EXCEPT !.frames[f].nested_block_frames = Front(blocks)],
                     frame)

\* ------------------------------------------------------------------------
\* InstructionEvaluator (src/src/ir_let/interpreter/simple_eval.rs)
\* ------------------------------------------------------------------------

\* A faulty set_var: the binding is stored and the refcount is not touched
set_var_without_increment(m, name, address) ==
    set_var_no_refcount(m, name, address)

\* InstructionEvaluator::set_var: increment, then store in the innermost
\* block frame of the top call frame
set_var(m, name, address) ==
    set_var_no_refcount(inc_refcount(m, address), name, address)

\* InstructionEvaluator::eval_var
eval_var(m, var_name) == lookup_var(m, var_name)

\* values.push(value) on the outcome r of the evaluation of value
push(r, values) == Ret(r.m, Append(values, r.value))

\* for arg in args { values.push(self.eval_var(arg)) }: acc holds the
\* machine and the values pushed so far
RECURSIVE eval_vars_from(_, _)
eval_vars_from(acc, names) ==
    IF names = <<>> \/ ~Ok(acc.m) THEN acc
    ELSE eval_vars_from(push(eval_var(acc.m, Head(names)), acc.value),
                        Tail(names))

eval_vars(m, names) == eval_vars_from(Ret(m, <<>>), names)

\* for addr in addrs { self.heap.inc_refcount(addr) }
RECURSIVE inc_each(_, _)
inc_each(m, addrs) ==
    IF addrs = <<>> \/ ~Ok(m) THEN m
    ELSE inc_each(inc_refcount(m, Head(addrs)), Tail(addrs))

\* A faulty binding of names to values: the values are taken last to first
RECURSIVE set_vars_reversed(_, _, _)
set_vars_reversed(m, names, values) ==
    IF names = <<>> \/ values = <<>> \/ ~Ok(m) THEN m
    ELSE set_vars_reversed(
             inc_refcount(set_var_no_refcount(m, Head(names), Last(values)),
                          Last(values)),
             Tail(names), Front(values))

\* for (name, value) in pairs { self.set_var(name, value) }
RECURSIVE set_vars(_, _, _)
set_vars(m, names, values) ==
    IF names = <<>> \/ values = <<>> \/ ~Ok(m) THEN m
    ELSE set_vars(set_var(m, Head(names), Head(values)), Tail(names), Tail(values))

\* A faulty Get: an index outside the tuple reads its nearest field
get_field_clamped(tuple, index) ==
    IF ~Ok(index.m) THEN Ret(index.m, 0)
    ELSE IF tuple.value.field_values = <<>>
    THEN Ret(Panic(index.m, "field index out of range"), 0)
    ELSE IF index.value.value < 0
    THEN Ret(index.m, tuple.value.field_values[1])
    ELSE IF index.value.value >= Len(tuple.value.field_values)
    THEN Ret(index.m, Last(tuple.value.field_values))
    ELSE Ret(index.m, tuple.value.field_values[index.value.value + 1])

\* eval_binop, BinOp::Get, once the tuple and the index are read
get_field(tuple, index) ==
    IF ~Ok(index.m) THEN Ret(index.m, 0)
    \* index as usize: a negative index becomes a huge one
    ELSE IF index.value.value >= 0
            /\ index.value.value < Len(tuple.value.field_values)
    THEN Ret(index.m, tuple.value.field_values[index.value.value + 1])
    ELSE Ret(Panic(index.m, "field index out of range"), 0)

\* eval_binop, BinOp::Add / Sub / Eq, once both integers are read
int_op(op, lhs, rhs) ==
    LET a == lhs.value.value
        b == rhs.value.value
    IN IF ~Ok(rhs.m) THEN Ret(rhs.m, 0)
       ELSE IF op = "Add"
       THEN IF AddOverflows(a, b) /\ overflow_checks
            THEN Ret(Panic(rhs.m, "attempt to add with overflow"), 0)
            ELSE alloc(rhs.m, HeapInt(WrappingAdd(a, b)))
       ELSE IF op = "Sub"
       THEN IF SubOverflows(a, b) /\ overflow_checks
            THEN Ret(Panic(rhs.m, "attempt to subtract with overflow"), 0)
            ELSE alloc(rhs.m, HeapInt(WrappingSub(a, b)))
       ELSE alloc(rhs.m, HeapBool(a = b))

\* eval_binop, BinOp::Get: the index is read after the tuple
get_field_at(tuple, rhs_addr) ==
    get_field(tuple, check_int(deref(tuple.m, rhs_addr)))

\* eval_binop, BinOp::Add / Sub / Eq: the right integer is read after the
\* left one
int_op_with(op, lhs, rhs_addr) ==
    int_op(op, lhs, check_int(deref(lhs.m, rhs_addr)))

\* InstructionEvaluator::eval_binop
eval_binop(m, op, lhs_addr, rhs_addr) ==
    IF op = "Get"
    THEN get_field_at(check_tuple(deref(m, lhs_addr)), rhs_addr)
    ELSE int_op_with(op, check_int(deref(m, lhs_addr)), rhs_addr)

\* A faulty Tuple: the counts of the fields are not incremented
alloc_tuple_uncounted(field_values) ==
    alloc(field_values.m, HeapTuple(field_values.value))

\* eval_simple, Simple::Tuple, once the fields are looked up
alloc_tuple(field_values) ==
    alloc(inc_each(field_values.m, field_values.value),
          HeapTuple(field_values.value))

\* eval_simple, Simple::Fun, once the free names are looked up: a name
\* inserted twice keeps the address inserted last
alloc_closure(looked, e) ==
    LET closure_environment ==
            [n \in {e.free_names[k] : k \in 1..Len(e.free_names)} |->
                LET k == CHOOSE j \in 1..Len(e.free_names) :
                             /\ e.free_names[j] = n
                             /\ \A i \in (j + 1)..Len(e.free_names) :
                                   e.free_names[i] # n
                IN looked.value[k]]
        closure == HeapClosure(e.name, e.arg_names,
                               IF Ok(looked.m) THEN closure_environment
                               ELSE EmptyMap,
                               e.body)
    IN alloc(inc_each(looked.m, Contained(closure)), closure)

\* eval_simple, Simple::BinOp, once lhs and rhs are looked up
eval_binop_at(addresses, op) ==
    IF ~Ok(addresses.m) THEN Ret(addresses.m, 0)
    ELSE eval_binop(addresses.m, op, addresses.value[1], addresses.value[2])

\* A faulty Set: the count of the new value is not incremented
set_field_without_increment(tuple, tuple_address, index, new_value) ==
    IF ~Ok(tuple.m) THEN Ret(tuple.m, 0)
    ELSE IF index < Len(tuple.value.field_values)
    THEN LET old_value == tuple.value.field_values[index + 1]
             written ==
                 [tuple.m EXCEPT
                    !.memory[tuple_address].heap_value
                       .field_values[index + 1] = new_value]
         IN alloc(dec_refcount(written, old_value), HeapTuple(<<>>))
    ELSE Ret(Panic(tuple.m, "tuple index out of range during mutation"), 0)

\* A faulty Set: the count of the old value is not decremented
set_field_without_decrement(tuple, tuple_address, index, new_value) ==
    IF ~Ok(tuple.m) THEN Ret(tuple.m, 0)
    ELSE IF index < Len(tuple.value.field_values)
    THEN LET written ==
                 [tuple.m EXCEPT
                    !.memory[tuple_address].heap_value
                       .field_values[index + 1] = new_value]
         IN alloc(inc_refcount(written, new_value), HeapTuple(<<>>))
    ELSE Ret(Panic(tuple.m, "tuple index out of range during mutation"), 0)

\* A faulty Set: a tuple stored into one of its own fields is not counted
set_field_uncounted_self(tuple, tuple_address, index, new_value) ==
    IF ~Ok(tuple.m) THEN Ret(tuple.m, 0)
    ELSE IF index < Len(tuple.value.field_values)
    THEN LET old_value == tuple.value.field_values[index + 1]
             written ==
                 [tuple.m EXCEPT
                    !.memory[tuple_address].heap_value
                       .field_values[index + 1] = new_value]
         IN alloc(dec_refcount(IF new_value = tuple_address THEN written
                               ELSE inc_refcount(written, new_value),
                               old_value),
                  HeapTuple(<<>>))
    ELSE Ret(Panic(tuple.m, "tuple index out of range during mutation"), 0)

\* eval_simple, Simple::Set, once the tuple is dereferenced: the field is
\* written, the new value incremented, then the old one decremented
set_field(tuple, tuple_address, index, new_value) ==
    IF ~Ok(tuple.m) THEN Ret(tuple.m, 0)
    ELSE IF index < Len(tuple.value.field_values)
    THEN LET old_value == tuple.value.field_values[index + 1]
             written ==
                 [tuple.m EXCEPT
                    !.memory[tuple_address].heap_value
                       .field_values[index + 1] = new_value]
         IN alloc(dec_refcount(inc_refcount(written, new_value), old_value),
                  HeapTuple(<<>>))
    ELSE Ret(Panic(tuple.m, "tuple index out of range during mutation"), 0)

\* eval_simple, Simple::Set, once tuple and new_value are looked up
set_field_at(addresses, index) ==
    set_field(check_tuple(deref(addresses.m, addresses.value[1])),
              addresses.value[1], index, addresses.value[2])

\* InstructionEvaluator::eval_simple
eval_simple(m, e) ==
    IF e.d = "Literal"
    THEN IF e.constant.tag = "Int"
         THEN alloc(m, HeapInt(e.constant.value))
         ELSE alloc(m, HeapBool(e.constant.value))
    ELSE IF e.d = "Tuple" THEN alloc_tuple(eval_vars(m, e.args))
    ELSE IF e.d = "Fun" THEN alloc_closure(eval_vars(m, e.free_names), e)
    ELSE IF e.d = "BinOp"
    THEN eval_binop_at(eval_vars(m, <<e.lhs, e.rhs>>), e.op)
    ELSE \* Set
         set_field_at(eval_vars(m, <<e.tuple, e.new_value>>), e.index)

\* A faulty binding of the environment: the names are iterated in one order
\* and the values in the order hash_flip selects
bind_closure_unpaired(entered, closure, closure_address, arg_values, hash_flip) ==
    LET env_names == IterOrder(DOMAIN closure.environment, FALSE)
        value_names == IterOrder(DOMAIN closure.environment, hash_flip)
        env_values ==
            [k \in 1..Len(env_names) |-> closure.environment[value_names[k]]]
    IN set_var(set_vars(set_vars(entered, env_names, env_values),
                        closure.arg_names, arg_values),
               closure.name, closure_address)

\* eval_control, Control::Call, in the new call frame: the environment, the
\* parameters and the closure itself are bound; hash_flip is the iteration
\* order of the environment HashMap
bind_closure(entered, closure, closure_address, arg_values, hash_flip) ==
    LET env_names == IterOrder(DOMAIN closure.environment, hash_flip)
        env_values ==
            [k \in 1..Len(env_names) |-> closure.environment[env_names[k]]]
    IN set_var(set_vars(set_vars(entered, env_names, env_values),
                        closure.arg_names, arg_values),
               closure.name, closure_address)

\* A faulty Call: the number of arguments is not compared with the number
\* of parameters
enter_closure_unchecked(closure, closure_address, arg_values, return_info, hash_flip) ==
    IF ~Ok(closure.m) THEN Ret(closure.m, program_counter)
    ELSE Ret(bind_closure(enter_function(closure.m, return_info),
                          closure.value, closure_address, arg_values,
                          hash_flip),
             closure.value.body)

\* eval_control, Control::Call, once the closure is dereferenced
enter_closure(closure, closure_address, arg_values, return_info, hash_flip) ==
    IF ~Ok(closure.m) THEN Ret(closure.m, program_counter)
    ELSE IF Len(closure.value.arg_names) # Len(arg_values)
    THEN Ret(Panic(closure.m, "incorrect number of arguments"), program_counter)
    ELSE Ret(bind_closure(enter_function(closure.m, return_info),
                          closure.value, closure_address, arg_values,
                          hash_flip),
             closure.value.body)

\* eval_control, Control::Call, once func and the arguments are looked up
call_closure(addresses, return_info, hash_flip) ==
    IF ~Ok(addresses.m) THEN Ret(addresses.m, program_counter)
    ELSE enter_closure(check_closure(deref(addresses.m, Head(addresses.value))),
                       Head(addresses.value), Tail(addresses.value),
                       return_info, hash_flip)

\* eval_control, Control::If, once the condition is dereferenced
branch(condition_value, control) ==
    IF ~Ok(condition_value.m) THEN Ret(condition_value.m, program_counter)
    ELSE IF condition_value.value.value
    THEN Ret(condition_value.m, control.branch_success)
    ELSE Ret(condition_value.m, control.branch_failure)

\* A faulty If: a condition that is no Bool counts as true
branch_on_truthy(condition_address, control) ==
    IF ~Ok(condition_address.m) THEN Ret(condition_address.m, program_counter)
    ELSE IF condition_address.m.memory[condition_address.value]
               .heap_value.tag = "Bool"
    THEN branch(deref(condition_address.m, condition_address.value), control)
    ELSE Ret(condition_address.m, control.branch_success)

\* eval_control, Control::If, once the condition is looked up
branch_on(condition_address, control) ==
    branch(check_bool(deref(condition_address.m, condition_address.value)),
           control)

\* the branch is entered with a block frame of its own
enter_branch(target, return_info) ==
    Ret(enter_block(target.m, return_info), target.value)

\* A faulty eval_control: the If arm pushes a block frame for the branch,
\* in which the names of the enclosing block are not bound
eval_control_entering_block(m, control, return_info, hash_flip) ==
    IF control.d = "Call"
    THEN call_closure(eval_vars(m, <<control.func>> \o control.args),
                      return_info, hash_flip)
    ELSE enter_branch(branch_on(eval_var(m, control.condition), control),
                      return_info)

\* InstructionEvaluator::eval_control: the If arm does not use return_info
eval_control(m, control, return_info, hash_flip) ==
    IF control.d = "Call"
    THEN call_closure(eval_vars(m, <<control.func>> \o control.args),
                      return_info, hash_flip)
    ELSE branch_on(eval_var(m, control.condition), control)

\* eval_instruction, Definition::Var and Step::Simple: the value is bound
\* to the assignment's name and the next instruction follows
bind_value(value, name, address) ==
    Ret(set_var(value.m, name, value.value), next(address))

\* A faulty eval_instruction: the return address of a Call is the second
\* instruction after it
eval_instruction_returning_past(m, address, instruction, hash_flip) ==
    IF instruction.definition.d = "Var"
    THEN bind_value(eval_var(m, instruction.definition.var_name),
                    instruction.name, address)
    ELSE IF ~IsControl(instruction.definition)
    THEN bind_value(eval_simple(m, instruction.definition),
                    instruction.name, address)
    ELSE eval_control(m, instruction.definition,
                      ReturnInfo(instruction.name, next(next(address))),
                      hash_flip)

\* InstructionEvaluator::eval_instruction
eval_instruction(m, address, instruction, hash_flip) ==
    IF instruction.definition.d = "Var"
    THEN bind_value(eval_var(m, instruction.definition.var_name),
                    instruction.name, address)
    ELSE IF ~IsControl(instruction.definition)
    THEN bind_value(eval_simple(m, instruction.definition),
                    instruction.name, address)
    ELSE eval_control(m, instruction.definition,
                      ReturnInfo(instruction.name, next(address)), hash_flip)

\* ------------------------------------------------------------------------
\* Source expressions (the Expr tree the normalizer reads; built in
\* src/src/fib.rs)
\* ------------------------------------------------------------------------

ExprLiteral(c) == [e |-> "Literal", constant |-> c]
ExprVar(v) == [e |-> "Var", var_name |-> v]
ExprFun(n, args, body) ==
    [e |-> "Fun", name |-> n, arg_names |-> args, body |-> body]
ExprCall(f, args) == [e |-> "Call", func |-> f, args |-> args]
ExprBinOp(op, l, r) == [e |-> "BinOp", op |-> op, lhs |-> l, rhs |-> r]
ExprLet(n, def, body) ==
    [e |-> "Let", name |-> n, definition |-> def, body |-> body]
ExprIf(c, t, f) ==
    [e |-> "If", condition |-> c, branch_success |-> t, branch_failure |-> f]
ExprTuple(values) == [e |-> "Tuple", values |-> values]
ExprSet(t, i, v) == [e |-> "Set", tuple |-> t, index |-> i, new_expr |-> v]

\* ------------------------------------------------------------------------
\* Free-variable analysis (src/src/ir_let/free_vars.rs)
\* ------------------------------------------------------------------------

SeqRange(s) == {s[k] : k \in 1..Len(s)}

RECURSIVE collect_block(_, _, _), collect_instructions(_, _, _, _)

\* A faulty collect_simple: the names a nested closure captures are not
\* taken over
collect_definition_without_captures(blocks, def, free_vars) ==
    IF def.d = "Var" THEN free_vars \cup {def.var_name}
    ELSE IF def.d = "Literal" THEN free_vars
    ELSE IF def.d = "Tuple" THEN free_vars \cup SeqRange(def.args)
    ELSE IF def.d = "Set" THEN free_vars \cup {def.tuple, def.new_value}
    ELSE IF def.d = "BinOp" THEN free_vars \cup {def.lhs, def.rhs}
    ELSE IF def.d = "Fun" THEN free_vars
    ELSE IF def.d = "Call"
    THEN free_vars \cup {def.func} \cup SeqRange(def.args)
    ELSE \* If
         collect_block(blocks, def.branch_failure.block_index,
             collect_block(blocks, def.branch_success.block_index,
                           free_vars \cup {def.condition}))

\* FreeVars::collect_definition (with collect_simple, collect_control,
\* collect_var)
collect_definition(blocks, def, free_vars) ==
    IF def.d = "Var" THEN free_vars \cup {def.var_name}
    ELSE IF def.d = "Literal" THEN free_vars
    ELSE IF def.d = "Tuple" THEN free_vars \cup SeqRange(def.args)
    ELSE IF def.d = "Set" THEN free_vars \cup {def.tuple, def.new_value}
    ELSE IF def.d = "BinOp" THEN free_vars \cup {def.lhs, def.rhs}
    ELSE IF def.d = "Fun" THEN free_vars \cup SeqRange(def.free_names)
    ELSE IF def.d = "Call"
    THEN free_vars \cup {def.func} \cup SeqRange(def.args)
    ELSE \* If
         collect_block(blocks, def.branch_failure.block_index,
             collect_block(blocks, def.branch_success.block_index,
                           free_vars \cup {def.condition}))

\* the loop of collect_block over instructions k, k-1, .., 1
collect_instructions(blocks, instructions, k, free_vars) ==
    IF k = 0 THEN free_vars
    ELSE LET instruction == instructions[k]
             after ==
                 IF instruction.kind = "EnterBlock" THEN free_vars
                 ELSE IF instruction.kind = "ExitBlock"
                 THEN free_vars \cup {instruction.var_name}
                 ELSE collect_definition(blocks, instruction.definition,
                                         free_vars \ {instruction.name})
         IN collect_instructions(blocks, instructions, k - 1, after)

\* FreeVars::collect_block: the instructions in reverse
collect_block(blocks, block_index, free_vars) ==
    LET instructions == blocks[block_index + 1].instructions
    IN collect_instructions(blocks, instructions, Len(instructions), free_vars)

\* A faulty free_vars_function: the function's name and its parameters are
\* left in the set
free_vars_function_keeping_parameters(function_blocks, funname, argnames, initial_block_index) ==
    collect_block(function_blocks, initial_block_index, {})

\* FreeVars::free_vars_function (finish_function_body, done)
free_vars_function(function_blocks, funname, argnames, initial_block_index) ==
    (collect_block(function_blocks, initial_block_index, {}) \ {funname})
        \ SeqRange(argnames)

\* ------------------------------------------------------------------------
\* Let-normalizer (src/src/ir_let/compiler.rs)
\*   n = [program, current_function_index, current_block_index,
\*        var_counter, var_substitution, fault, hash_flip, returns, scopes]
\* hash_flip is the iteration order of the HashSet of free names.
\* Option<usize>::None is NotFound.
\* returns is not a field of LetNormalizer: it is the history of the calls
\* of normalize_block and normalize_function_body that have returned, each
\* with the two cursors as the call found them and as it left them.
\* scopes is not a field either: it is the history of the calls of
\* with_substitution that have returned, each with the substitution map as
\* the call found it and as it left it.
\* ------------------------------------------------------------------------

\* LetNormalizer::new
LetNormalizerNew(hash_flip) ==
    [program |-> [functions |-> <<>>],
     current_function_index |-> NotFound,
     current_block_index |-> NotFound,
     var_counter |-> 0,
     var_substitution |-> EmptyMap,
     fault |-> NoFault,
     hash_flip |-> hash_flip,
     returns |-> <<>>,
     scopes |-> <<>>]

MapRemove(f, k) == [x \in DOMAIN f \ {k} |-> f[x]]

\* A faulty fresh: the counter is not advanced
fresh_without_count(n, base_name) ==
    Ret(n, base_name \o "__" \o ToString(n.var_counter))

\* LetNormalizer::fresh
fresh(n, base_name) ==
    Ret([n EXCEPT !.var_counter = @ + 1],
        base_name \o "__" \o ToString(n.var_counter))

\* with_substitution, before f: from is mapped to to
substitution_enter(n, from, to) ==
    [n EXCEPT !.var_substitution = MapPut(@, from, to)]

\* with_substitution(from, _, f), entered at before, returns with the map
\* var_substitution: the history takes it
left_scope(n, from, before, var_substitution) ==
    [n EXCEPT !.var_substitution = var_substitution,
              !.scopes = Append(@, [from |-> from,
                                    before |-> before.var_substitution,
                                    after |-> var_substitution])]

\* A faulty with_substitution: from is removed after f, whatever it was
\* mapped to before
substitution_exit_forgetting(n, from, before) ==
    left_scope(n, from, before, MapRemove(n.var_substitution, from))

\* with_substitution, after f: the mapping of from that before had is put
\* back, or from is removed if it had none
substitution_exit(n, from, before) ==
    left_scope(n, from, before,
               IF from \in DOMAIN before.var_substitution
               THEN MapPut(n.var_substitution, from,
                           before.var_substitution[from])
               ELSE MapRemove(n.var_substitution, from))

\* LetNormalizer::emit
emit(n, instruction) ==
    IF ~Ok(n) THEN n
    ELSE IF n.current_function_index = NotFound
    THEN Panic(n, "should have active function")
    ELSE IF n.current_block_index = NotFound
    THEN Panic(n, "should have active block")
    ELSE [n EXCEPT !.program.functions[n.current_function_index + 1]
                      .blocks[n.current_block_index + 1].instructions =
                          Append(@, instruction)]

\* the two cursors of the normalizer
cursors(n) == <<n.current_function_index, n.current_block_index>>

\* the call, entered at n, returns r: the history takes it
returned(n, call, r) ==
    IF ~Ok(r.m) THEN r
    ELSE Ret([r.m EXCEPT !.returns =
                             Append(@, [call |-> call, value |-> r.value,
                                        before |-> cursors(n),
                                        after |-> cursors(r.m)])],
             r.value)

RECURSIVE normalize_rhs(_, _), normalize_var(_, _), normalize_vars_from(_, _),
          normalize_block(_, _), normalize_function_body(_, _, _, _),
          fresh_args_from(_, _), with_substitutions_enter(_, _),
          with_substitutions_exit(_, _, _)

\* arg_substitutions.push((original_arg_name, unique_arg_name)) on the
\* outcome of fresh
push_substitution(unique_arg_name, original_arg_name, pairs) ==
    Ret(unique_arg_name.m,
        Append(pairs, <<original_arg_name, unique_arg_name.value>>))

\* the loop of Expr::Fun over original_arg_names.iter().rev(): acc holds
\* the normalizer and the (from, to) pairs pushed so far
fresh_args_from(acc, reversed_names) ==
    IF reversed_names = <<>> THEN acc
    ELSE fresh_args_from(
             push_substitution(fresh(acc.m, Head(reversed_names)),
                               Head(reversed_names), acc.value),
             Tail(reversed_names))

fresh_args(n, reversed_names) == fresh_args_from(Ret(n, <<>>), reversed_names)

RECURSIVE with_substitutions_enter_front_first(_, _)

\* A faulty with_substitutions: the pairs are taken from the front, so the
\* first parameter is entered innermost
with_substitutions_enter_front_first(n, reverse_substitutions) ==
    IF reverse_substitutions = <<>> THEN n
    ELSE with_substitutions_enter_front_first(
             substitution_enter(n, Head(reverse_substitutions)[1],
                                Head(reverse_substitutions)[2]),
             Tail(reverse_substitutions))

\* with_substitutions, before f: the pairs are popped from the back, each
\* entered inside the one popped before it
with_substitutions_enter(n, reverse_substitutions) ==
    IF reverse_substitutions = <<>> THEN n
    ELSE with_substitutions_enter(
             substitution_enter(n, Last(reverse_substitutions)[1],
                                Last(reverse_substitutions)[2]),
             Front(reverse_substitutions))

\* with_substitutions, after f: each with_substitution restores what the
\* map held when it was entered, innermost first. before is the normalizer
\* as it was when the last pair (the outermost) was entered.
with_substitutions_exit(n, reverse_substitutions, before) ==
    IF reverse_substitutions = <<>> THEN n
    ELSE substitution_exit(
             with_substitutions_exit(
                 n, Front(reverse_substitutions),
                 substitution_enter(before, Last(reverse_substitutions)[1],
                                    Last(reverse_substitutions)[2])),
             Last(reverse_substitutions)[1], before)

\* normalize_var, Definition::Step: the step is assigned to the fresh name
emit_fresh(var_name, step) ==
    Ret(emit(var_name.m, Assignment(var_name.value, step)), var_name.value)

\* normalize_var, once normalize_rhs has returned
name_of(norm_rhs) ==
    IF ~Ok(norm_rhs.m) THEN Ret(norm_rhs.m, "")
    ELSE IF norm_rhs.value.d = "Var"
    THEN Ret(norm_rhs.m, norm_rhs.value.var_name)
    ELSE emit_fresh(fresh(norm_rhs.m, "__gen"), norm_rhs.value)

\* LetNormalizer::normalize_var
normalize_var(n, e) == name_of(normalize_rhs(n, e))

\* for arg in args { args_at.push(self.normalize_var(arg)?) }: acc holds
\* the normalizer and the names pushed so far
normalize_vars_from(acc, exprs) ==
    IF exprs = <<>> \/ ~Ok(acc.m) THEN acc
    ELSE normalize_vars_from(push(normalize_var(acc.m, Head(exprs)), acc.value),
                             Tail(exprs))

\* A faulty loop: the sub-expressions are normalized from the last to the
\* first
normalize_vars_backwards(n, exprs) ==
    LET at == normalize_vars_from(Ret(n, <<>>), Reverse(exprs))
    IN Ret(at.m, Reverse(at.value))

normalize_vars(n, exprs) == normalize_vars_from(Ret(n, <<>>), exprs)

\* A faulty normalize_function_body: the block cursor is not put back
close_function_keeping_block(n, done, new_function_index, name, arg_names, freevars, body) ==
    Ret([done EXCEPT
           !.program.functions[new_function_index + 1].free_names =
               Some(freevars),
           !.current_function_index = n.current_function_index],
        AllocClosure(name, arg_names, freevars, body))

\* normalize_function_body, once the free names are collected
close_function(n, done, new_function_index, name, arg_names, freevars, body) ==
    Ret([done EXCEPT
           !.program.functions[new_function_index + 1].free_names =
               Some(freevars),
           !.current_function_index = n.current_function_index,
           !.current_block_index = n.current_block_index],
        AllocClosure(name, arg_names, freevars, body))

\* normalize_function_body, once the body is normalized
finish_function_body(n, new_function_index, name, arg_names, body_address) ==
    IF ~Ok(body_address.m) THEN Ret(body_address.m, None)
    ELSE close_function(
             n, body_address.m, new_function_index, name, arg_names,
             IterOrder(free_vars_function(
                           body_address.m.program
                               .functions[new_function_index + 1].blocks,
                           name, arg_names, body_address.value.block_index),
                       n.hash_flip),
             body_address.value)

\* LetNormalizer::normalize_function_body
normalize_function_body(n, name, arg_names, e) ==
    returned(n, "normalize_function_body",
        finish_function_body(
            n, Len(n.program.functions), name, arg_names,
            normalize_block(
                [n EXCEPT
                   !.program.functions =
                       Append(@, [name |-> name, arg_names |-> arg_names,
                                  free_names |-> None, blocks |-> <<>>]),
                   !.current_function_index = Len(n.program.functions),
                   !.current_block_index = NotFound],
                e)))

\* A faulty normalize_block: the index of the enclosing block is not
\* restored when the block is left
leave_block_keeping_index(n, new_block_index, exited) ==
    IF ~Ok(exited) THEN Ret(exited, None)
    ELSE Ret(exited,
             TargetAddress(n.current_function_index, new_block_index, 0))

\* normalize_block, once ExitBlock is emitted
leave_block(n, new_block_index, exited) ==
    IF ~Ok(exited) THEN Ret(exited, None)
    ELSE Ret([exited EXCEPT !.current_block_index = n.current_block_index],
             TargetAddress(n.current_function_index, new_block_index, 0))

\* normalize_block, once the expression is normalized
emit_exit(n, new_block_index, res) ==
    leave_block(n, new_block_index, emit(res.m, ExitBlock(res.value)))

\* A faulty normalize_block: the new block is given no parent
normalize_block_without_parent(n, e) ==
    IF ~Ok(n) THEN Ret(n, None)
    ELSE IF n.current_function_index = NotFound
    THEN Ret(Panic(n, "should have active function"), None)
    ELSE LET current_function_index == n.current_function_index
             new_block_index ==
                 Len(n.program.functions[current_function_index + 1].blocks)
             pushed ==
                 [n EXCEPT
                    !.program.functions[current_function_index + 1].blocks =
                        Append(@, [instructions |-> <<>>,
                                   parent_block_index |-> NotFound]),
                    !.current_block_index = new_block_index]
         IN returned(n, "normalize_block",
                     emit_exit(n, new_block_index,
                               normalize_var(emit(pushed, EnterBlock), e)))

\* LetNormalizer::normalize_block
normalize_block(n, e) ==
    IF ~Ok(n) THEN Ret(n, None)
    ELSE IF n.current_function_index = NotFound
    THEN Ret(Panic(n, "should have active function"), None)
    ELSE LET current_function_index == n.current_function_index
             new_block_index ==
                 Len(n.program.functions[current_function_index + 1].blocks)
             pushed ==
                 [n EXCEPT
                    !.program.functions[current_function_index + 1].blocks =
                        Append(@, [instructions |-> <<>>,
                                   parent_block_index |->
                                       n.current_block_index]),
                    !.current_block_index = new_block_index]
         IN returned(n, "normalize_block",
                     emit_exit(n, new_block_index,
                               normalize_var(emit(pushed, EnterBlock), e)))

\* normalize_rhs, Expr::Fun, once the body is normalized: the substitutions
\* of the name and of the parameters are undone
leave_function(function, e, before_name, arg_substitutions) ==
    IF ~Ok(function.m) THEN Ret(function.m, None)
    ELSE Ret(with_substitutions_exit(
                 substitution_exit(function.m, e.name, before_name),
                 arg_substitutions.value, arg_substitutions.m),
             function.value)

\* A faulty Expr::Fun: the function's name is not substituted inside the
\* parameters, so a parameter of the same name hides it
normalize_function_under_parameters(before_name, e, unique_name, arg_substitutions) ==
    leave_function(
        normalize_function_body(
            IF e.name \in SeqRange(e.arg_names) THEN before_name
            ELSE substitution_enter(before_name, e.name, unique_name),
            unique_name,
            Reverse([k \in 1..Len(arg_substitutions.value) |->
                        arg_substitutions.value[k][2]]),
            e.body),
        e, before_name, arg_substitutions)

\* normalize_rhs, Expr::Fun, once the parameters are substituted
normalize_function(before_name, e, unique_name, arg_substitutions) ==
    leave_function(
        normalize_function_body(
            substitution_enter(before_name, e.name, unique_name),
            unique_name,
            Reverse([k \in 1..Len(arg_substitutions.value) |->
                        arg_substitutions.value[k][2]]),
            e.body),
        e, before_name, arg_substitutions)

\* normalize_rhs, Expr::Fun, once the parameters have fresh names
substitute_args(arg_substitutions, e, unique_name) ==
    normalize_function(
        with_substitutions_enter(arg_substitutions.m, arg_substitutions.value),
        e, unique_name, arg_substitutions)

\* normalize_rhs, Expr::Fun, once the function has a fresh name
rename_args(unique_name, e) ==
    substitute_args(fresh_args(unique_name.m, Reverse(e.arg_names)), e,
                    unique_name.value)

\* normalize_rhs, Expr::Let, once the body is normalized
leave_let(body, e, emitted) ==
    IF ~Ok(body.m) THEN Ret(body.m, None)
    ELSE Ret(substitution_exit(body.m, e.name, emitted), body.value)

\* normalize_rhs, Expr::Let, once the definition is emitted
normalize_let_body(emitted, e, unique_name) ==
    leave_let(normalize_rhs(substitution_enter(emitted, e.name, unique_name),
                            e.body),
              e, emitted)

\* normalize_rhs, Expr::Let, once the name is fresh
emit_let(unique_name, e, def_c) ==
    normalize_let_body(emit(unique_name.m, Assignment(unique_name.value, def_c)),
                       e, unique_name.value)

\* normalize_rhs, Expr::Let, once the definition is normalized
normalize_let(def_c, e) ==
    IF ~Ok(def_c.m) THEN Ret(def_c.m, None)
    ELSE emit_let(fresh(def_c.m, e.name), e, def_c.value)

\* normalize_rhs, Expr::If, once both branches are normalized
make_if(cond_at, branch_success, branch_failure) ==
    IF ~Ok(branch_failure.m) THEN Ret(branch_failure.m, None)
    ELSE Ret(branch_failure.m,
             If(cond_at, branch_success, branch_failure.value))

\* normalize_rhs, Expr::If, once branch_success is normalized
normalize_failure(branch_success, e, cond_at) ==
    make_if(cond_at, branch_success.value,
            normalize_block(branch_success.m, e.branch_failure))

\* normalize_rhs, Expr::If, once the condition is normalized
normalize_branches(cond_at, e) ==
    normalize_failure(normalize_block(cond_at.m, e.branch_success), e,
                      cond_at.value)

\* the sub-expressions that Expr::Call, BinOp, Tuple and Set hand to
\* normalize_var, in the order of the calls
operands(e) ==
    IF e.e = "Call" THEN <<e.func>> \o e.args
    ELSE IF e.e = "BinOp" THEN <<e.lhs, e.rhs>>
    ELSE IF e.e = "Tuple" THEN e.values
    ELSE <<e.tuple, e.new_expr>>

\* normalize_rhs, Expr::Call, BinOp, Tuple and Set, once the
\* sub-expressions are normalized
make_step(at, e) ==
    IF ~Ok(at.m) THEN Ret(at.m, None)
    ELSE IF e.e = "Call" THEN Ret(at.m, Call(Head(at.value), Tail(at.value)))
    ELSE IF e.e = "BinOp" THEN Ret(at.m, BinOp(e.op, at.value[1], at.value[2]))
    ELSE IF e.e = "Tuple" THEN Ret(at.m, Tuple(at.value))
    ELSE Ret(at.m, Set(at.value[1], e.index, at.value[2]))

\* LetNormalizer::normalize_rhs
normalize_rhs(n, e) ==
    IF ~Ok(n) THEN Ret(n, None)
    ELSE IF e.e = "Literal" THEN Ret(n, Literal(e.constant))
    ELSE IF e.e = "Var"
    THEN IF e.var_name \in DOMAIN n.var_substitution
         THEN Ret(n, DefVar(n.var_substitution[e.var_name]))
         ELSE Ret(Panic(n, "could not find substitution"), None)
    ELSE IF e.e = "Fun" THEN rename_args(fresh(n, e.name), e)
    ELSE IF e.e = "Let" THEN normalize_let(normalize_rhs(n, e.definition), e)
    ELSE IF e.e = "If"
    THEN normalize_branches(normalize_var(n, e.condition), e)
    ELSE make_step(normalize_vars(n, operands(e)), e)

\* LetNormalizer::normalize_program
normalize_program(n, e) == normalize_function_body(n, "toplevel", <<>>, e).m

\* let_normalize: the normalizer after the run; its program is the result
\* unless fault says that the run panicked
let_normalize(e, hash_flip) == normalize_program(LetNormalizerNew(hash_flip), e)

\* ------------------------------------------------------------------------
\* Frame layout (src/src/ir_flat/frame_layout.rs, src/src/ir_flat/syntax.rs)
\* A panic of the layout is the fault of the value returned: Ret(Built, v)
\* is a value, Ret(Failed(msg), None) a panic.
\* ------------------------------------------------------------------------

Built == [fault |-> NoFault]
Failed(msg) == [fault |-> msg]

\* target::Reference
Local(offset) == [ref |-> "Local", offset |-> offset]
Argument(offset) == [ref |-> "Argument", offset |-> offset]
Closure(offset) == [ref |-> "Closure", offset |-> offset]
This == [ref |-> "This", offset |-> NotFound]

\* Block::block_names: the names the block's Assignments bind, in the order
\* of the instructions
block_names(block) ==
    LET assigned == SelectSeq(block.instructions,
                              LAMBDA i : i.kind = "Assignment")
    IN [k \in 1..Len(assigned) |-> assigned[k].name]

\* the position HashMap::insert leaves for n: the last one inserted
LastIndexOf(names, n) ==
    CHOOSE k \in 1..Len(names) :
        /\ names[k] = n
        /\ \A j \in (k + 1)..Len(names) : names[j] # n

\* A faulty compute_layout: every slot is numbered from 0, whatever the base
compute_layout_from_zero(base_offset, names) ==
    IF Len(names) # Cardinality(SeqRange(names))
    THEN Ret(Failed("assertion failed: original_length == result.len()"),
             None)
    ELSE Ret(Built, [n \in SeqRange(names) |-> LastIndexOf(names, n) - 1])

\* compute_layout
compute_layout(base_offset, names) ==
    IF Len(names) # Cardinality(SeqRange(names))
    THEN Ret(Failed("assertion failed: original_length == result.len()"),
             None)
    ELSE Ret(Built,
             [n \in SeqRange(names) |->
                 base_offset + (LastIndexOf(names, n) - 1)])

BlockFrameLayout(start_offset, offsets, parent_block_index) ==
    [start_offset |-> start_offset, offsets |-> offsets,
     parent_block_index |-> parent_block_index]

\* BlockFrameLayout::end_offset
end_offset(block_layout) ==
    block_layout.start_offset + Cardinality(DOMAIN block_layout.offsets)

\* compute_function_frame_layout, the loop body once compute_layout has
\* returned: block_layouts.push(block_layout)
push_block_layout(block_layouts, b, start_offset, offsets) ==
    IF ~Ok(offsets.m) THEN Ret(offsets.m, None)
    ELSE Ret(Built,
             Append(block_layouts.value,
                    BlockFrameLayout(start_offset, offsets.value,
                                     b.parent_block_index)))

\* compute_function_frame_layout, the loop body once start_offset is known
layout_block(block_layouts, b, start_offset) ==
    push_block_layout(block_layouts, b, start_offset,
                      compute_layout(start_offset, block_names(b)))

\* A faulty loop body: a nested block starts where its parent starts
layout_block_at_parent_start(block_layouts, b) ==
    IF b.parent_block_index = NotFound THEN layout_block(block_layouts, b, 0)
    ELSE IF b.parent_block_index >= Len(block_layouts.value)
    THEN Ret(Failed("parent block should have been already processed"), None)
    ELSE layout_block(
             block_layouts, b,
             block_layouts.value[b.parent_block_index + 1].start_offset)

\* compute_function_frame_layout, the loop body: parent_layout and
\* start_offset
layout_next_block(block_layouts, b) ==
    IF b.parent_block_index = NotFound THEN layout_block(block_layouts, b, 0)
    ELSE IF b.parent_block_index >= Len(block_layouts.value)
    THEN Ret(Failed("parent block should have been already processed"), None)
    ELSE layout_block(
             block_layouts, b,
             end_offset(block_layouts.value[b.parent_block_index + 1]))

RECURSIVE layout_blocks_from(_, _)

\* for b in &function.blocks, over the blocks that are left
layout_blocks_from(block_layouts, blocks) ==
    IF blocks = <<>> \/ ~Ok(block_layouts.m) THEN block_layouts
    ELSE layout_blocks_from(layout_next_block(block_layouts, Head(blocks)),
                            Tail(blocks))

\* the FunctionFrameLayout literal, once offsets_free_vars is computed
function_frame_layout(function, block_layouts, arguments, free_vars) ==
    IF ~Ok(free_vars.m) THEN Ret(free_vars.m, None)
    ELSE Ret(Built,
             [this_name |-> function.name,
              offsets_arguments |-> arguments.value,
              offsets_free_vars |-> free_vars.value,
              blocks |-> block_layouts.value])

\* the FunctionFrameLayout literal, once offsets_arguments is computed
layout_free_vars(function, block_layouts, arguments) ==
    IF ~Ok(arguments.m) THEN Ret(arguments.m, None)
    ELSE IF function.free_names = None
    THEN Ret(Failed("free names should be known"), None)
    ELSE function_frame_layout(function, block_layouts, arguments,
                               compute_layout(0, function.free_names.some))

\* compute_function_frame_layout, once the blocks are laid out
layout_arguments(function, block_layouts) ==
    IF ~Ok(block_layouts.m) THEN Ret(block_layouts.m, None)
    ELSE layout_free_vars(function, block_layouts,
                          compute_layout(0, function.arg_names))

\* compute_function_frame_layout
compute_function_frame_layout(function) ==
    layout_arguments(function,
                     layout_blocks_from(Ret(Built, <<>>), function.blocks))

\* function_layouts.push(compute_function_frame_layout(f))
push_function_layout(function_layouts, function_layout) ==
    IF ~Ok(function_layout.m) THEN Ret(function_layout.m, None)
    ELSE Ret(Built, Append(function_layouts.value, function_layout.value))

RECURSIVE layout_functions_from(_, _)

\* for f in &program.functions, over the functions that are left
layout_functions_from(function_layouts, functions) ==
    IF functions = <<>> \/ ~Ok(function_layouts.m) THEN function_layouts
    ELSE layout_functions_from(
             push_function_layout(
                 function_layouts,
                 compute_function_frame_layout(Head(functions))),
             Tail(functions))

\* the ProgramFrameLayout literal
program_frame_layout(function_layouts) ==
    IF ~Ok(function_layouts.m) THEN Ret(function_layouts.m, None)
    ELSE Ret(Built, [functions |-> function_layouts.value])

\* compute_program_frame_layout
compute_program_frame_layout(p) ==
    program_frame_layout(layout_functions_from(Ret(Built, <<>>), p.functions))

\* A faulty lookup: the captured names are searched before the function's
\* own name
lookup_outside_blocks_closure_first(function_layout, name) ==
    IF name \in DOMAIN function_layout.offsets_arguments
    THEN Ret(Built, Argument(function_layout.offsets_arguments[name]))
    ELSE IF name \in DOMAIN function_layout.offsets_free_vars
    THEN Ret(Built, Closure(function_layout.offsets_free_vars[name]))
    ELSE IF function_layout.this_name = name THEN Ret(Built, This)
    ELSE Ret(Failed("Failed to resolve variable offset"), None)

\* ProgramFrameLayout::lookup_var, after the loop over the blocks: the
\* arguments, the function's own name, the closure environment
lookup_outside_blocks(function_layout, name) ==
    IF name \in DOMAIN function_layout.offsets_arguments
    THEN Ret(Built, Argument(function_layout.offsets_arguments[name]))
    ELSE IF function_layout.this_name = name THEN Ret(Built, This)
    ELSE IF name \in DOMAIN function_layout.offsets_free_vars
    THEN Ret(Built, Closure(function_layout.offsets_free_vars[name]))
    ELSE Ret(Failed("Failed to resolve variable offset"), None)

RECURSIVE lookup_in_blocks(_, _, _)

\* ProgramFrameLayout::lookup_var, the loop: while let Some(block_index) =
\* current_block_index
lookup_in_blocks(function_layout, current_block_index, name) ==
    IF current_block_index = NotFound
    THEN lookup_outside_blocks(function_layout, name)
    ELSE IF current_block_index >= Len(function_layout.blocks)
    THEN Ret(Failed("unknown block"), None)
    ELSE IF name \in DOMAIN function_layout.blocks[current_block_index + 1]
                                .offsets
    THEN Ret(Built,
             Local(function_layout.blocks[current_block_index + 1]
                       .offsets[name]))
    ELSE lookup_in_blocks(
             function_layout,
             function_layout.blocks[current_block_index + 1]
                 .parent_block_index,
             name)

\* ProgramFrameLayout::lookup_var
layout_lookup_var(layout, function_index, block_index, name) ==
    IF function_index >= Len(layout.functions)
    THEN Ret(Failed("unknown function"), None)
    ELSE lookup_in_blocks(layout.functions[function_index + 1], block_index,
                          name)

\* ------------------------------------------------------------------------
\* Input programs
\* ------------------------------------------------------------------------

IntLit(v) == ExprLiteral(ConstInt(v))

\* src/src/fib.rs, fib_helper_def
fib_helper_def ==
    ExprFun("fib_helper", <<"n", "a", "b">>,
        ExprIf(ExprBinOp("Eq", ExprVar("n"), IntLit(0)),
               ExprVar("b"),
               ExprCall(ExprVar("fib_helper"),
                        <<ExprBinOp("Sub", ExprVar("n"), IntLit(1)),
                          ExprBinOp("Add", ExprVar("a"), ExprVar("b")),
                          ExprVar("a")>>)))

\* src/src/fib.rs, fib_def
fib_def ==
    ExprFun("fib", <<"n">>,
        ExprCall(ExprVar("fib_helper"), <<ExprVar("n"), IntLit(1), IntLit(0)>>))

\* src/src/fib.rs, fib_test
fib_test(n) ==
    ExprLet("fib_helper", fib_helper_def,
        ExprLet("fib", fib_def, ExprCall(ExprVar("fib"), <<IntLit(n)>>)))

\* 42
ExprFortyTwo == IntLit(42)

\* 2 + 3
ExprArith == ExprBinOp("Add", IntLit(2), IntLit(3))

\* if 1 == k then 10 else 20
ExprCond(k) == ExprIf(ExprBinOp("Eq", IntLit(1), IntLit(k)), IntLit(10), IntLit(20))

\* let t = (1,2,3) in let u = (t.1 = t!!0 + t!!2) in t!!1
ExprTupleGetSet ==
    ExprLet("t", ExprTuple(<<IntLit(1), IntLit(2), IntLit(3)>>),
        ExprLet("u",
            ExprSet(ExprVar("t"), 1,
                    ExprBinOp("Add",
                              ExprBinOp("Get", ExprVar("t"), IntLit(0)),
                              ExprBinOp("Get", ExprVar("t"), IntLit(2)))),
            ExprBinOp("Get", ExprVar("t"), IntLit(1))))

\* let x = 7 in let f = fun f(y) -> x + y in f(35)
ExprCapture ==
    ExprLet("x", IntLit(7),
        ExprLet("f",
            ExprFun("f", <<"y">>, ExprBinOp("Add", ExprVar("x"), ExprVar("y"))),
            ExprCall(ExprVar("f"), <<IntLit(35)>>)))

\* let x = 7 in fun f(y) -> x + y
ExprClosureResult ==
    ExprLet("x", IntLit(7),
        ExprFun("f", <<"y">>, ExprBinOp("Add", ExprVar("x"), ExprVar("y"))))

\* let x = (if 1 == k then 10 else 20) in x + 1
ExprCondThenAdd(k) ==
    ExprLet("x", ExprCond(k), ExprBinOp("Add", ExprVar("x"), IntLit(1)))

\* let f = fun f(c) -> (let r = (if c == 0 then 1 else 2) in r + 10)
\* in f(k) + 100
ExprCondInFunction(k) ==
    ExprLet("f",
        ExprFun("f", <<"c">>,
            ExprLet("r",
                ExprIf(ExprBinOp("Eq", ExprVar("c"), IntLit(0)), IntLit(1), IntLit(2)),
                ExprBinOp("Add", ExprVar("r"), IntLit(10)))),
        ExprBinOp("Add", ExprCall(ExprVar("f"), <<IntLit(k)>>), IntLit(100)))

\* let f = fun f() -> 5 in f()
ExprThunk ==
    ExprLet("f", ExprFun("f", <<>>, IntLit(5)), ExprCall(ExprVar("f"), <<>>))

\* let t = (1) in let u = (t.0 = t) in 42
ExprCycle ==
    ExprLet("t", ExprTuple(<<IntLit(1)>>),
        ExprLet("u", ExprSet(ExprVar("t"), 0, ExprVar("t")), IntLit(42)))

\* let x = 1 in let y = 2 in let f = fun f(z) -> (x + y) + z in f(3)
ExprTwoCaptures ==
    ExprLet("x", IntLit(1),
        ExprLet("y", IntLit(2),
            ExprLet("f",
                ExprFun("f", <<"z">>,
                    ExprBinOp("Add",
                              ExprBinOp("Add", ExprVar("x"), ExprVar("y")),
                              ExprVar("z"))),
                ExprCall(ExprVar("f"), <<IntLit(3)>>))))

\* let x = 5 in let y = 2 in let f = fun f(z) -> (x - y) - z in f(1)
ExprCaptureOrder ==
    ExprLet("x", IntLit(5),
        ExprLet("y", IntLit(2),
            ExprLet("f",
                ExprFun("f", <<"z">>,
                    ExprBinOp("Sub",
                              ExprBinOp("Sub", ExprVar("x"), ExprVar("y")),
                              ExprVar("z"))),
                ExprCall(ExprVar("f"), <<IntLit(1)>>))))

\* let mk = fun mk() -> ((7, 8), 9) in let t = mk() in let v = 1 in
\* let u = (t.0 = v) in t!!0
ExprSetDropsOld ==
    ExprLet("mk",
        ExprFun("mk", <<>>,
            ExprTuple(<<ExprTuple(<<IntLit(7), IntLit(8)>>), IntLit(9)>>)),
        ExprLet("t", ExprCall(ExprVar("mk"), <<>>),
            ExprLet("v", IntLit(1),
                ExprLet("u", ExprSet(ExprVar("t"), 0, ExprVar("v")),
                    ExprBinOp("Get", ExprVar("t"), IntLit(0))))))

\* let x = 1 in (x, x, 2)
ExprTupleResult ==
    ExprLet("x", IntLit(1), ExprTuple(<<ExprVar("x"), ExprVar("x"), IntLit(2)>>))

\* let v = 1 in let t = (v) in let u = (t.0 = v) in t!!0
ExprSetSame ==
    ExprLet("v", IntLit(1),
        ExprLet("t", ExprTuple(<<ExprVar("v")>>),
            ExprLet("u", ExprSet(ExprVar("t"), 0, ExprVar("v")),
                ExprBinOp("Get", ExprVar("t"), IntLit(0)))))

\* let mk = fun mk(a) -> (let p = (a, a) in p) in mk(9)
ExprReturnLocal ==
    ExprLet("mk",
        ExprFun("mk", <<"a">>,
            ExprLet("p", ExprTuple(<<ExprVar("a"), ExprVar("a")>>),
                    ExprVar("p"))),
        ExprCall(ExprVar("mk"), <<IntLit(9)>>))

\* let t = (1, 2) in t!!k
ExprGetAt(k) ==
    ExprLet("t", ExprTuple(<<IntLit(1), IntLit(2)>>),
        ExprBinOp("Get", ExprVar("t"), IntLit(k)))

\* let v = 5 in let t = (1, 2) in let u = (t.i = v) in t!!0
ExprSetAt(i) ==
    ExprLet("v", IntLit(5),
        ExprLet("t", ExprTuple(<<IntLit(1), IntLit(2)>>),
            ExprLet("u", ExprSet(ExprVar("t"), i, ExprVar("v")),
                ExprBinOp("Get", ExprVar("t"), IntLit(0)))))

\* let v = 9 in let t = (1, 2) in let a = t in let p = (t, 3) in
\* let u = (t.1 = v) in a!!1 + (p!!0)!!1
ExprAlias ==
    ExprLet("v", IntLit(9),
        ExprLet("t", ExprTuple(<<IntLit(1), IntLit(2)>>),
            ExprLet("a", ExprVar("t"),
                ExprLet("p", ExprTuple(<<ExprVar("t"), IntLit(3)>>),
                    ExprLet("u", ExprSet(ExprVar("t"), 1, ExprVar("v")),
                        ExprBinOp("Add",
                            ExprBinOp("Get", ExprVar("a"), IntLit(1)),
                            ExprBinOp("Get",
                                ExprBinOp("Get", ExprVar("p"), IntLit(0)),
                                IntLit(1))))))))

\* an operand of each kind: 1, true, (1), fun g() -> 5
Operands ==
    {IntLit(1), ExprLiteral(ConstBool(TRUE)), ExprTuple(<<IntLit(1)>>),
     ExprFun("g", <<>>, IntLit(5))}

\* l op r
ExprOperate(op, l, r) == ExprBinOp(op, l, r)

\* if c then 10 else 20
ExprIfOn(c) == ExprIf(c, IntLit(10), IntLit(20))

\* let f = c in f(2)
ExprCallOn(c) == ExprLet("f", c, ExprCall(ExprVar("f"), <<IntLit(2)>>))

\* let f = fun f(x) -> x in f(args)
ExprArity(args) ==
    ExprLet("f", ExprFun("f", <<"x">>, ExprVar("x")),
        ExprCall(ExprVar("f"), args))

\* programs that index a tuple inside and outside its fields
IndexExprs ==
    {ExprGetAt(k) : k \in {0 - 1, 0, 1, 2, 3}}
        \cup {ExprSetAt(i) : i \in {0, 1, 2, 3}}
        \cup {ExprAlias, ExprSetDropsOld}

\* programs whose operator, condition or callee has the wrong type, or whose
\* call passes too few or too many arguments
IllTypedExprs ==
    {ExprOperate(op, l, r) : op \in {"Add", "Sub", "Eq"},
                            l \in Operands, r \in Operands}
        \cup {ExprIfOn(c) : c \in Operands}
        \cup {ExprCallOn(c) : c \in Operands}
        \cup {ExprArity(args) :
                 args \in {<<>>, <<IntLit(1)>>, <<IntLit(1), IntLit(2)>>}}

SetFreeExprs ==
    {fib_test(n) : n \in 0..MaxFib}
        \cup {ExprFortyTwo, ExprArith, ExprCapture, ExprThunk, ExprTwoCaptures,
              ExprTupleResult, ExprReturnLocal, ExprCaptureOrder,
              ExprClosureResult}
        \cup {ExprCond(k) : k \in {1, 2}}
        \cup {ExprCondThenAdd(k) : k \in {1, 2}}
        \cup {ExprCondInFunction(k) : k \in {0, 1}}

\* let x = 1 in let x = x + 1 in x
ExprRebind ==
    ExprLet("x", IntLit(1),
        ExprLet("x", ExprBinOp("Add", ExprVar("x"), IntLit(1)), ExprVar("x")))

\* let f = fun f(x, x) -> x in f(1, 2)
ExprRepeatedParam ==
    ExprLet("f", ExprFun("f", <<"x", "x">>, ExprVar("x")),
        ExprCall(ExprVar("f"), <<IntLit(1), IntLit(2)>>))

\* let x = 7 in
\* let f = fun f(y) -> (let g = fun g(z) -> x + z in g(y)) in f(35)
ExprNestedCapture ==
    ExprLet("x", IntLit(7),
        ExprLet("f",
            ExprFun("f", <<"y">>,
                ExprLet("g",
                    ExprFun("g", <<"z">>,
                            ExprBinOp("Add", ExprVar("x"), ExprVar("z"))),
                    ExprCall(ExprVar("g"), <<ExprVar("y")>>))),
            ExprCall(ExprVar("f"), <<IntLit(35)>>)))

\* let x = 1 in
\* if x == k then (let a = 5 in if a == 5 then a + x else 0) else x
ExprNestedIf(k) ==
    ExprLet("x", IntLit(1),
        ExprIf(ExprBinOp("Eq", ExprVar("x"), IntLit(k)),
               ExprLet("a", IntLit(5),
                   ExprIf(ExprBinOp("Eq", ExprVar("a"), IntLit(5)),
                          ExprBinOp("Add", ExprVar("a"), ExprVar("x")),
                          IntLit(0))),
               ExprVar("x")))

\* let f = fun f(c, p) -> (let l = 3 in if c == 0 then p else l) in f(k, 8)
ExprBranchOnOuter(k) ==
    ExprLet("f",
        ExprFun("f", <<"c", "p">>,
            ExprLet("l", IntLit(3),
                ExprIf(ExprBinOp("Eq", ExprVar("c"), IntLit(0)),
                       ExprVar("p"), ExprVar("l")))),
        ExprCall(ExprVar("f"), <<IntLit(k), IntLit(8)>>))

\* expressions that bind a name more than once, nest functions in functions
\* and Ifs in Ifs
ScopeExprs ==
    {ExprRebind, ExprRepeatedParam, ExprNestedCapture}
        \cup {ExprNestedIf(k) : k \in {1, 2}}
        \cup {ExprBranchOnOuter(k) : k \in {0, 1}}

SetExprs == {ExprTupleGetSet, ExprCycle, ExprSetSame}

Exprs ==
    SetFreeExprs \cup SetExprs \cup IndexExprs \cup IllTypedExprs
        \cup ScopeExprs

\* Expressions that use a name no let, parameter or function name binds at
\* the point of use:  y;  let x = 1 in x + y;  (let x = 1 in x) + x;
\* let f = fun f(a) -> b in f(1)
UnresolvedExprs ==
    {ExprVar("y"),
     ExprLet("x", IntLit(1), ExprBinOp("Add", ExprVar("x"), ExprVar("y"))),
     ExprBinOp("Add", ExprLet("x", IntLit(1), ExprVar("x")), ExprVar("x")),
     ExprLet("f", ExprFun("f", <<"a">>, ExprVar("b")),
         ExprCall(ExprVar("f"), <<IntLit(1)>>))}

\* let x = 1 in (let x = 2 in x) + x
ExprInnerRebind ==
    ExprLet("x", IntLit(1),
        ExprBinOp("Add", ExprLet("x", IntLit(2), ExprVar("x")), ExprVar("x")))

\* let f = fun f(f) -> f in f(1)
ExprSelfNamedParam ==
    ExprLet("f", ExprFun("f", <<"f">>, ExprVar("f")),
        ExprCall(ExprVar("f"), <<IntLit(1)>>))

\* let g = fun g(a, b, a) -> a in g(1, 2, 3)
ExprFirstLastParam ==
    ExprLet("g", ExprFun("g", <<"a", "b", "a">>, ExprVar("a")),
        ExprCall(ExprVar("g"), <<IntLit(1), IntLit(2), IntLit(3)>>))

\* expressions in which a binder hides another binder of the same name
BinderExprs == {ExprInnerRebind, ExprSelfNamedParam, ExprFirstLastParam}

\* let x = 1 in
\* if x == 1 then ((x, 2).0 = x + 3)
\* else (fun h(a, b, c) -> a)(x + 1, x, (x, x + 2))
ExprOperands ==
    ExprLet("x", IntLit(1),
        ExprIf(ExprBinOp("Eq", ExprVar("x"), IntLit(1)),
               ExprSet(ExprTuple(<<ExprVar("x"), IntLit(2)>>), 0,
                       ExprBinOp("Add", ExprVar("x"), IntLit(3))),
               ExprCall(ExprFun("h", <<"a", "b", "c">>, ExprVar("a")),
                        <<ExprBinOp("Add", ExprVar("x"), IntLit(1)),
                          ExprVar("x"),
                          ExprTuple(<<ExprVar("x"),
                                      ExprBinOp("Add", ExprVar("x"),
                                                IntLit(2))>>)>>)))

\* what let_normalize is called on
BuildExprs == Exprs \cup UnresolvedExprs \cup BinderExprs \cup {ExprOperands}

\* The programs the interpreter is started on: what let_normalize emits for
\* the expressions above, under either iteration order of the free names
Programs == {let_normalize(e, h).program : e \in Exprs, h \in BOOLEAN}

\* ------------------------------------------------------------------------
\* ProgramEvaluator (src/src/ir_let/interpreter/simple_eval.rs)
\* ------------------------------------------------------------------------

\* The outcome of one step(): the machine, the program counter and the
\* value step() returned (None while the run goes on)
Outcome(m, pc, res) == [m |-> m, pc |-> pc, result |-> res]

\* A faulty return: the popped frame's locals are released before the
\* result is put into the frame that is now innermost
exit_to_parent_release_first(m, block, return_value) ==
    LET released == dec_each(m, block.values)
        rooted == set_var(released, block.return_info.result_variable,
                          return_value)
    IN Outcome(rooted,
               IF Ok(rooted) THEN block.return_info.return_address
               ELSE program_counter,
               None)

\* ExitBlock, return_info = Some(..): the result is put into the frame that
\* is now innermost, then the popped frame's locals are released
exit_to_parent(m, block, return_value) ==
    LET rooted == set_var(m, block.return_info.result_variable, return_value)
        released == dec_each(rooted, block.values)
    IN Outcome(released,
               IF Ok(released) THEN block.return_info.return_address
               ELSE program_counter,
               None)

\* A faulty root exit: the popped frame's locals are not released
exit_root_without_release(m, block, return_value) ==
    LET res == deref(m, return_value)
    IN Outcome(res.m, program_counter, IF Ok(res.m) THEN res.value ELSE None)

\* A faulty root exit: the local that holds the result is not released
exit_root_keeping_result(m, block, return_value) ==
    LET res == deref(m, return_value)
        released == dec_each(res.m,
                             SelectSeq(block.values,
                                       LAMBDA a : a # return_value))
    IN Outcome(released, program_counter,
               IF Ok(released) THEN res.value ELSE None)

\* ExitBlock, return_info = None: the result is cloned out of the heap,
\* then the popped frame's locals are released
exit_root(m, block, return_value) ==
    LET res == deref(m, return_value)
        released == dec_each(res.m, block.values)
    IN Outcome(released, program_counter,
               IF Ok(released) THEN res.value ELSE None)

\* step(), Instruction::ExitBlock(return_var)
step_exit_block(m, return_var) ==
    LET popped == exit_block(m)
        block == popped.value
        return_value ==
            IF Ok(popped.m) THEN block_lookup_var(block, return_var)
            ELSE NotFound
    IN IF ~Ok(popped.m) THEN Outcome(popped.m, program_counter, None)
       ELSE IF return_value = NotFound
       THEN Outcome(Panic(popped.m,
                "could not find return value of block in block local variables"),
                program_counter, None)
       ELSE IF block.return_info = None
       THEN exit_root(popped.m, block, return_value)
       ELSE exit_to_parent(popped.m, block, return_value)

\* A faulty EnterBlock: the program counter is not advanced
step_enter_block_staying(m) == Outcome(m, program_counter, None)

\* step(), Instruction::EnterBlock
step_enter_block(m) == Outcome(m, next(program_counter), None)

\* step(), Instruction::Assignment: program_counter = next_address
jump(r) == Outcome(r.m, IF Ok(r.m) THEN r.value ELSE program_counter, None)

\* step(), Instruction::Assignment(assignment)
step_assignment(m, assignment, hash_flip) ==
    jump(eval_instruction(m, program_counter, assignment, hash_flip))

current_instruction == get_instruction(program, program_counter)

CurrentMachine == Machine(memory, heap_next_address, frames, fault)

\* run() keeps calling step() until it returns a value or panics
Running == fault = NoFault /\ result = None

\* the evaluator takes the outcome of its step
Assign(out) ==
    /\ memory' = out.m.memory
    /\ heap_next_address' = out.m.heap_next_address
    /\ frames' = out.m.frames
    /\ fault' = out.m.fault
    /\ program_counter' = out.pc
    /\ result' = out.result
    /\ UNCHANGED <<program, overflow_checks, client>>

Apply(out) == Assign(out) /\ UNCHANGED other

StepEnterBlock ==
    /\ Running
    /\ current_instruction.kind = "EnterBlock"
    /\ Apply(step_enter_block(CurrentMachine))

StepExitBlock ==
    /\ Running
    /\ current_instruction.kind = "ExitBlock"
    /\ Apply(step_exit_block(CurrentMachine, current_instruction.var_name))

\* get_instruction panics on a program counter that names no instruction
StepAssignment ==
    /\ Running
    /\ current_instruction.kind \notin {"EnterBlock", "ExitBlock"}
    /\ \E hash_flip \in BOOLEAN :
          IF current_instruction = NoInstruction
          THEN Apply(Outcome(Panic(CurrentMachine, "invalid instruction index"),
                             program_counter, None))
          ELSE Apply(step_assignment(CurrentMachine, current_instruction,
                                     hash_flip))

\* ProgramEvaluator::new over InstructionEvaluator::new
New ==
    /\ program \in Programs
    /\ memory = EmptyMap
    /\ heap_next_address = 0
    /\ frames = StackNew
    /\ program_counter = TargetAddress(0, 0, 0)
    /\ fault = NoFault
    /\ result = None
    /\ overflow_checks \in BOOLEAN
    /\ client = None

Init == New /\ other = None

Next == StepEnterBlock \/ StepExitBlock \/ StepAssignment

Spec == Init /\ [][Next]_vars

\* ------------------------------------------------------------------------
\* Two evaluators run on the same program, each with its own iteration orders
\* ------------------------------------------------------------------------

\* ProgramEvaluator::step on the machine m, at program_counter
step(m, hash_flip) ==
    IF current_instruction.kind = "EnterBlock" THEN step_enter_block(m)
    ELSE IF current_instruction.kind = "ExitBlock"
    THEN step_exit_block(m, current_instruction.var_name)
    ELSE IF current_instruction = NoInstruction
    THEN Outcome(Panic(m, "invalid instruction index"), program_counter, None)
    ELSE step_assignment(m, current_instruction, hash_flip)

InitTwoRuns ==
    /\ New
    /\ other = Outcome(Machine(EmptyMap, 0, StackNew, NoFault),
                       TargetAddress(0, 0, 0), None)

\* Both evaluators take their next step. The second one is stepped from the
\* same program counter, so the action is taken only while the two agree on
\* it.
StepBoth ==
    /\ Running
    /\ other.m.fault = NoFault /\ other.result = None
    /\ other.pc = program_counter
    /\ \E hash_flip \in BOOLEAN, other_flip \in BOOLEAN :
          /\ Assign(step(CurrentMachine, hash_flip))
          /\ other' = step(other.m, other_flip)

SpecTwoRuns == InitTwoRuns /\ [][StepBoth]_vars

\* ------------------------------------------------------------------------
\* Vocabulary of the properties
\* ------------------------------------------------------------------------

\* the innermost block frame of the top call frame
TopBlock(fr) == Last(Last(fr).nested_block_frames)

CountIn(s, a) == Cardinality({k \in 1..Len(s) : s[k] = a})

\* the stack slots that hold address a: (call frame, block frame, offset)
StackSlots(fr, a) ==
    {<<f, b, k>> \in
        UNION {UNION {{<<f, b, k>> :
                         k \in 1..Len(fr[f].nested_block_frames[b].values)} :
                      b \in 1..Len(fr[f].nested_block_frames)} :
               f \in 1..Len(fr)} :
        fr[f].nested_block_frames[b].values[k] = a}

\* the tuple fields and closure environment entries that hold address a
HeapSlots(mem, a) ==
    {<<c, k>> \in
        UNION {{<<c, k>> : k \in 1..Len(Contained(mem[c].heap_value))} :
               c \in DOMAIN mem} :
        Contained(mem[c].heap_value)[k] = a}

HolderCount(a) ==
    Cardinality(StackSlots(frames, a)) + Cardinality(HeapSlots(memory, a))

\* the cells reachable from the addresses in S through tuple fields and
\* closure environments
RECURSIVE Reach(_, _)
Reach(mem, S) ==
    LET inside == S \cap DOMAIN mem
        more == UNION {SeqRange(Contained(mem[c].heap_value)) : c \in inside}
                    \cap DOMAIN mem
    IN IF more \subseteq inside THEN inside ELSE Reach(mem, inside \cup more)

\* a program with a Set step
HasSet(p) ==
    \E f \in 1..Len(p.functions) :
      \E b \in 1..Len(p.functions[f].blocks) :
        \E i \in 1..Len(p.functions[f].blocks[b].instructions) :
           LET instruction == p.functions[f].blocks[b].instructions[i]
           IN instruction.kind = "Assignment" /\ instruction.definition.d = "Set"

\* the program counter is at an ExitBlock that is about to execute
AtExit == Running /\ current_instruction.kind = "ExitBlock"

\* the address the ExitBlock at the program counter returns: its result
\* variable looked up in the block frame that exit_block pops
ExitValue == block_lookup_var(TopBlock(frames), current_instruction.var_name)

\* the program counter is at a Call / an If that is about to execute
AtCall ==
    /\ Running
    /\ current_instruction.kind = "Assignment"
    /\ current_instruction.definition.d = "Call"

AtIf ==
    /\ Running
    /\ current_instruction.kind = "Assignment"
    /\ current_instruction.definition.d = "If"

\* the program counter is at a Set / a binary operation that is about to
\* execute
AtSet ==
    /\ Running
    /\ current_instruction.kind = "Assignment"
    /\ current_instruction.definition.d = "Set"

AtBinOp ==
    /\ Running
    /\ current_instruction.kind = "Assignment"
    /\ current_instruction.definition.d = "BinOp"

\* the block the program counter is in
CurrentBlock ==
    program.functions[program_counter.function_index + 1]
        .blocks[program_counter.block_index + 1]

\* the program counter is in the block of an If branch
InBranch == CurrentBlock.parent_block_index # NotFound

\* the number of ancestors of block b of function f
RECURSIVE BlockDepth(_, _)
BlockDepth(f, b) ==
    LET parent == program.functions[f + 1].blocks[b + 1].parent_block_index
    IN IF parent = NotFound THEN 0 ELSE 1 + BlockDepth(f, parent)

\* the address of the If assignment whose branch is the block of address
IfSite(address) ==
    LET f == address.function_index
        b == address.block_index
        parent == program.functions[f + 1].blocks[b + 1].parent_block_index
        target == TargetAddress(f, b, 0)
        instructions == program.functions[f + 1].blocks[parent + 1].instructions
        i == CHOOSE j \in 1..Len(instructions) :
                /\ instructions[j].kind = "Assignment"
                /\ instructions[j].definition.d = "If"
                /\ target \in {instructions[j].definition.branch_success,
                               instructions[j].definition.branch_failure}
    IN TargetAddress(f, parent, i - 1)

\* the instruction before address, in the same block
previous(address) == [address EXCEPT !.instruction_index = @ - 1]

\* the instruction that has just been executed, when the program counter
\* has moved on to the next one of the block
executed == get_instruction(program, previous(program_counter))

\* the current-frame lookup of a name that is bound
Lookup(fr, name) ==
    frame_lookup_var(Last(fr).nested_block_frames,
                     Len(Last(fr).nested_block_frames), name)

\* a cell that reaches itself through tuple fields and closure environments
OnCycle(mem, c) == c \in Reach(mem, SeqRange(Contained(mem[c].heap_value)))

Terminated == result # None

\* the n-th Fibonacci number
RECURSIVE Fibonacci(_)
Fibonacci(n) == IF n < 2 THEN n ELSE Fibonacci(n - 1) + Fibonacci(n - 2)

FibProgram(n) == let_normalize(fib_test(n), FALSE).program

\* ------------------------------------------------------------------------
\* The heap on its own (src/src/heap.rs): any sequence of alloc,
\* inc_refcount and dec_refcount, made by a client that holds every address
\* alloc has returned.
\*   client = [addresses: what alloc returned, in order,
\*             freed: the cells the last call removed from the heap]
\* ------------------------------------------------------------------------

\* the values a client can build over the addresses it holds
HeapValuesOver(addresses) ==
    {HeapInt(7), HeapBool(TRUE)}
        \cup {HeapTuple(<<a, b>>) : a \in addresses, b \in addresses}
        \cup {HeapClosure("f", <<>>, [n \in {"x"} |-> a], TargetAddress(1, 0, 0)) :
                 a \in addresses}

\* Heap::new
InitHeap ==
    /\ program = [functions |-> <<>>]
    /\ memory = EmptyMap
    /\ heap_next_address = 0
    /\ frames = StackNew
    /\ program_counter = TargetAddress(0, 0, 0)
    /\ fault = NoFault
    /\ result = None
    /\ overflow_checks \in BOOLEAN
    /\ other = None
    /\ client = [addresses |-> <<>>, freed |-> {}]

\* the heap takes the outcome m of a call
ApplyHeap(m) ==
    /\ memory' = m.memory
    /\ heap_next_address' = m.heap_next_address
    /\ fault' = m.fault
    /\ UNCHANGED <<program, frames, program_counter, result, overflow_checks,
                   other>>

\* the client keeps the address alloc returned
KeepAddress(r) ==
    /\ ApplyHeap(r.m)
    /\ client' = [addresses |-> Append(client.addresses, r.value),
                  freed |-> DOMAIN memory \ DOMAIN r.m.memory]

\* a call that returns nothing
Called(m) ==
    /\ ApplyHeap(m)
    /\ client' = [client EXCEPT !.freed = DOMAIN memory \ DOMAIN m.memory]

HeapAlloc ==
    /\ fault = NoFault
    /\ heap_next_address < MaxAllocs
    /\ \E heap_value \in HeapValuesOver(SeqRange(client.addresses)) :
          KeepAddress(alloc(CurrentMachine, heap_value))

HeapIncRefcount ==
    /\ fault = NoFault
    /\ \E heap_address \in SeqRange(client.addresses) :
          \* a cell is counted at most once for the client and once for
          \* every tuple field and environment entry that holds it
          /\ heap_address \in DOMAIN memory =>
                 memory[heap_address].refcount <=
                     Cardinality(HeapSlots(memory, heap_address))
          /\ Called(inc_refcount(CurrentMachine, heap_address))

HeapDecRefcount ==
    /\ fault = NoFault
    /\ \E heap_address \in SeqRange(client.addresses) :
          \* a count that has wrapped below 0 is not decremented further
          /\ heap_address \in DOMAIN memory =>
                 memory[heap_address].refcount >= 0
          /\ Called(dec_refcount(CurrentMachine, heap_address))

NextHeap == HeapAlloc \/ HeapIncRefcount \/ HeapDecRefcount

SpecHeap == InitHeap /\ [][NextHeap]_vars

\* ------------------------------------------------------------------------
\* The stack on its own (src/src/stack.rs): any sequence of enter_function,
\* enter_block, exit_block, set_var_no_refcount and lookup_var.
\*   client = [op: the last call, name and value: its name argument and the
\*             address it passed or was returned]
\* ------------------------------------------------------------------------

StackCall(op, name, value) == [op |-> op, name |-> name, value |-> value]

\* Stack::new
InitStack ==
    /\ program = [functions |-> <<>>]
    /\ memory = EmptyMap
    /\ heap_next_address = 0
    /\ frames = StackNew
    /\ program_counter = TargetAddress(0, 0, 0)
    /\ fault = NoFault
    /\ result = None
    /\ overflow_checks = FALSE
    /\ other = None
    /\ client = StackCall("new", "", NotFound)

\* the stack takes the outcome m of the call
ApplyStack(m, call) ==
    /\ frames' = m.frames
    /\ fault' = m.fault
    /\ client' = call
    /\ UNCHANGED <<program, memory, heap_next_address, program_counter,
                   result, overflow_checks, other>>

\* a call that returns a value
ApplyReturned(r, op, name) == ApplyStack(r.m, StackCall(op, name, r.value))

\* the block frames on the stack, and the bindings in them
BlockFramesOf(fr) ==
    UNION {{<<f, b>> : b \in 1..Len(fr[f].nested_block_frames)} :
           f \in 1..Len(fr)}

BindingsOf(fr) ==
    UNION {{<<fb[1], fb[2], k>> :
              k \in 1..Len(fr[fb[1]].nested_block_frames[fb[2]].values)} :
           fb \in BlockFramesOf(fr)}

StackEnterFunction ==
    /\ fault = NoFault
    /\ Cardinality(BlockFramesOf(frames)) < MaxStack
    /\ ApplyStack(enter_function(CurrentMachine,
                                 ReturnInfo("r", TargetAddress(0, 0, 1))),
                  StackCall("enter_function", "", NotFound))

StackEnterBlock ==
    /\ fault = NoFault
    /\ Cardinality(BlockFramesOf(frames)) < MaxStack
    /\ ApplyStack(enter_block(CurrentMachine,
                              ReturnInfo("r", TargetAddress(0, 0, 1))),
                  StackCall("enter_block", "", NotFound))

\* the popped BlockFrame is dropped
StackExitBlock ==
    /\ fault = NoFault
    /\ ApplyStack(exit_block(CurrentMachine).m,
                  StackCall("exit_block", "", NotFound))

StackSetVar ==
    /\ fault = NoFault
    /\ Cardinality(BindingsOf(frames)) < MaxStack
    /\ \E name \in {"x", "y"}, value \in {0, 1} :
          ApplyStack(set_var_no_refcount(CurrentMachine, name, value),
                     StackCall("set_var_no_refcount", name, value))

StackLookupVar ==
    /\ fault = NoFault
    /\ \E name \in {"x", "y"} :
          ApplyReturned(lookup_var(CurrentMachine, name), "lookup_var", name)

NextStack ==
    \/ StackEnterFunction
    \/ StackEnterBlock
    \/ StackExitBlock
    \/ StackSetVar
    \/ StackLookupVar

SpecStack == InitStack /\ [][NextStack]_vars

\* ------------------------------------------------------------------------
\* The build on its own (src/src/ir_let/compiler.rs,
\* src/src/ir_flat/frame_layout.rs): let_normalize on an expression, then
\* compute_program_frame_layout on the program, then lookup_var on the
\* layout, as src/src/ir_flat/compiler.rs sets out to use them. compute_program_frame_layout is also called on programs written by
\* hand.
\*   client = [op: the last call, e, hash_flip: what let_normalize is called
\*             on, normalizer: the LetNormalizer when it returned,
\*             layout: the ProgramFrameLayout,
\*             function_index, block_index, name: the arguments of the last
\*             lookup_var, value: what the last call returned]
\*   program is the program let_normalize returned; fault is the panic of
\*   the last call.
\* ------------------------------------------------------------------------

\* a block whose Assignments bind the names to a literal
WrittenBlock(names, parent_block_index) ==
    [instructions |->
         <<EnterBlock>>
             \o [k \in 1..Len(names) |-> Assignment(names[k], Literal(ConstInt(0)))]
             \o <<ExitBlock(names[1])>>,
     parent_block_index |-> parent_block_index]

\* Programs written by hand, in which one name is bound in several places:
\*   function f(a, b, f), capturing <<c, b>>:
\*       block 0 binds x, a;  block 1 (in 0) binds y, x;  block 2 (in 1)
\*       binds z;  block 3 (in 0) binds w
\*   function g(), capturing <<c, g>>: block 0 binds x
WrittenShadowing ==
    [functions |->
        <<[name |-> "f", arg_names |-> <<"a", "b", "f">>,
           free_names |-> Some(<<"c", "b">>),
           blocks |-> <<WrittenBlock(<<"x", "a">>, NotFound),
                        WrittenBlock(<<"y", "x">>, 0),
                        WrittenBlock(<<"z">>, 1),
                        WrittenBlock(<<"w">>, 0)>>],
          [name |-> "g", arg_names |-> <<>>,
           free_names |-> Some(<<"c", "g">>),
           blocks |-> <<WrittenBlock(<<"x">>, NotFound)>>]>>]

\* a block that binds x twice
WrittenDuplicate ==
    [functions |->
        <<[name |-> "f", arg_names |-> <<>>, free_names |-> Some(<<>>),
           blocks |-> <<WrittenBlock(<<"x", "x">>, NotFound)>>]>>]

WrittenPrograms == {WrittenShadowing, WrittenDuplicate}

BuildClient(op, e, hash_flip) ==
    [op |-> op, e |-> e, hash_flip |-> hash_flip,
     normalizer |-> LetNormalizerNew(hash_flip), layout |-> None,
     function_index |-> NotFound, block_index |-> NotFound, name |-> "",
     value |-> None]

\* LetNormalizer::new, or a program written by hand
InitBuild ==
    /\ memory = EmptyMap
    /\ heap_next_address = 0
    /\ frames = StackNew
    /\ program_counter = TargetAddress(0, 0, 0)
    /\ fault = NoFault
    /\ result = None
    /\ overflow_checks = FALSE
    /\ other = None
    /\ \/ /\ program = [functions |-> <<>>]
          /\ \E e \in BuildExprs, hash_flip \in BOOLEAN :
                client = BuildClient("new", e, hash_flip)
       \/ /\ program \in WrittenPrograms
          /\ client = BuildClient("written", None, FALSE)

\* the names that occur in the program p
NamesOf(p) ==
    UNION {{p.functions[f].name}
               \cup SeqRange(p.functions[f].arg_names)
               \cup (IF p.functions[f].free_names = None THEN {}
                     ELSE SeqRange(p.functions[f].free_names.some))
               \cup UNION {SeqRange(block_names(p.functions[f].blocks[b])) :
                           b \in 1..Len(p.functions[f].blocks)} :
           f \in 1..Len(p.functions)}

\* let_normalize has returned Ok(n.program), or panicked: the code has no
\* place that makes an Err
ApplyNormalizer(n) ==
    /\ program' = IF Ok(n) THEN n.program ELSE program
    /\ fault' = n.fault
    /\ client' = [client EXCEPT !.op = "let_normalize", !.normalizer = n,
                                !.value = IF Ok(n) THEN [ok |-> n.program]
                                          ELSE None]
    /\ UNCHANGED <<memory, heap_next_address, frames, program_counter,
                   result, overflow_checks, other>>

\* a call on the layout has returned r, or panicked
ApplyLayout(r, op, function_index, block_index, name) ==
    /\ fault' = r.m.fault
    /\ client' = [client EXCEPT
                     !.op = op,
                     !.layout = IF op = "compute_program_frame_layout"
                                THEN r.value ELSE @,
                     !.function_index = function_index,
                     !.block_index = block_index,
                     !.name = name,
                     !.value = r.value]
    /\ UNCHANGED <<program, memory, heap_next_address, frames,
                   program_counter, result, overflow_checks, other>>

BuildLetNormalize ==
    /\ fault = NoFault
    /\ client.op = "new"
    /\ ApplyNormalizer(let_normalize(client.e, client.hash_flip))

BuildComputeLayout ==
    /\ fault = NoFault
    /\ client.op \in {"let_normalize", "written"}
    /\ ApplyLayout(compute_program_frame_layout(program),
                   "compute_program_frame_layout", NotFound, NotFound, "")

\* lookup_var on any function and block, the first index past the end
\* included, and on any name of the program or on one that is not in it
BuildLookupVar ==
    /\ fault = NoFault
    /\ client.layout # None
    /\ \E function_index \in 0..Len(program.functions) :
          \E block_index \in
                 0..(IF function_index < Len(program.functions)
                     THEN Len(program.functions[function_index + 1].blocks)
                     ELSE 0),
             name \in NamesOf(program) \cup {"nowhere"} :
             ApplyLayout(layout_lookup_var(client.layout, function_index,
                                           block_index, name),
                         "lookup_var", function_index, block_index, name)

NextBuild ==
    \/ BuildLetNormalize
    \/ BuildComputeLayout
    \/ BuildLookupVar

SpecBuild == InitBuild /\ [][NextBuild]_vars

\* ------------------------------------------------------------------------
\* Properties
\* ------------------------------------------------------------------------

\* C1: at every instruction boundary the refcount of every heap cell equals
\* the number of stack slots, tuple fields and closure environment entries
\* that hold its address, and no decrement has been applied to a count of 0.
C1_RefcountAccuracy ==
    /\ fault # "attempt to subtract with overflow"
    /\ \A a \in DOMAIN memory : memory[a].refcount = HolderCount(a)

\* a cell held at once by a stack slot of a callee frame and by a closure
\* environment or tuple field, three times or more in all
C1_Witness ==
    /\ Len(frames) >= 2
    /\ \E a \in DOMAIN memory :
          /\ memory[a].refcount >= 3
          /\ StackSlots(frames, a) # {}
          /\ HeapSlots(memory, a) # {}

\* C6: when the run of a program without a Set step has returned, the heap
\* holds no cell and the stack holds no frame.
C6_EmptyHeapWithoutSet ==
    (Terminated /\ ~HasSet(program)) => (memory = EmptyMap /\ frames = <<>>)

\* the run of the literal 42 has returned, after a cell was allocated
C6_Witness ==
    /\ Terminated
    /\ ~HasSet(program)
    /\ result = HeapInt(42)
    /\ heap_next_address > 0

\* C10: the run of fib_test(n) raises no fault and returns Int F(n), for
\* every n in 0..MaxFib.
C10_FibReturnsFibonacci ==
    \A n \in 0..MaxFib :
       program = FibProgram(n) =>
          /\ fault = NoFault
          /\ Terminated => result = HeapInt(Fibonacci(n))

\* fib_test(10) has returned Int 55
C10_Witness ==
    /\ program = FibProgram(10)
    /\ result = HeapInt(55)

\* C2 (as claimed): when the ExitBlock of an If branch fires, the branch's
\* result is bound to the If assignment's name in the innermost block frame
\* of the current call frame and the program counter becomes the instruction
\* after the If assignment.
C2_IfStoresResultAndResumes ==
    [][(AtExit /\ InBranch) =>
          LET site == IfSite(program_counter)
              name == get_instruction(program, site).name
          IN /\ fault' = NoFault
             /\ result' = None
             /\ program_counter' = next(site)
             /\ frames' # <<>>
             /\ block_lookup_var(TopBlock(frames'), name) = ExitValue]_vars

\* C3 (as claimed): while a block of depth d executes, the current call
\* frame holds d + 1 block frames (one more per enclosing If); the ExitBlock
\* of a branch pops one block frame and no call frame and leaves the locals
\* of the enclosing block frames in place; an If pushes and pops no call
\* frame.
C3_IfBranchHasOwnBlockFrame ==
    /\ [](Running =>
            Len(Last(frames).nested_block_frames) =
                BlockDepth(program_counter.function_index,
                           program_counter.block_index) + 1)
    /\ [][(AtExit /\ InBranch) =>
             /\ Len(frames') = Len(frames)
             /\ Len(Last(frames').nested_block_frames) =
                    Len(Last(frames).nested_block_frames) - 1
             /\ \A b \in 1..Len(Last(frames').nested_block_frames) :
                   LET before == Last(frames).nested_block_frames[b].values
                       after == Last(frames').nested_block_frames[b].values
                   IN /\ Len(after) >= Len(before)
                      /\ SubSeq(after, 1, Len(before)) = before]_vars
    /\ [][AtIf => Len(frames') = Len(frames)]_vars

\* C4: when a block frame carrying return info exits, the result is bound
\* under the return info's result variable in the frame that is innermost
\* after the pop, and the result cell is still in the heap, with a refcount
\* of at least 1, also when only the popped frame held it.
C4_ExitBlockRerootsBeforeReleasing ==
    [][(AtExit /\ TopBlock(frames).return_info # None) =>
          LET return_info == TopBlock(frames).return_info
          IN /\ fault' = NoFault
             /\ frames' # <<>>
             /\ block_lookup_var(TopBlock(frames'),
                                 return_info.result_variable) = ExitValue
             /\ ExitValue \in DOMAIN memory'
             /\ memory'[ExitValue].refcount >= 1]_vars

\* a call has just returned a cell that only the popped frame held: it is
\* bound to the Call's name and that binding is its only holder
C4_Witness ==
    /\ Running
    /\ program_counter.instruction_index >= 1
    /\ LET call == get_instruction(program, previous(program_counter))
       IN /\ call.kind = "Assignment"
          /\ call.definition.d = "Call"
          /\ call.name \in DOMAIN TopBlock(frames).variable_offsets
          /\ memory[block_lookup_var(TopBlock(frames), call.name)].refcount = 1

\* C5 (as claimed): when run returns, every cell still in the heap is
\* reachable from the address of the returned value.
C5_ResidueReachableFromResult ==
    [][(AtExit /\ Terminated') =>
          DOMAIN memory' \subseteq Reach(memory', {ExitValue})]_vars

\* C5 (amended): when run returns, every cell still in the heap is reachable
\* from the address of the returned value or from a cell on a reference
\* cycle.
C5_ResidueReachableFromResultOrCycle ==
    [][(AtExit /\ Terminated') =>
          DOMAIN memory' \subseteq
              Reach(memory',
                    {ExitValue}
                        \cup {c \in DOMAIN memory' : OnCycle(memory', c)})]_vars

\* run has returned and a cell is left in the heap
C5_Witness == Terminated /\ memory # EmptyMap

\* C7: a Call of a closure with as many parameters as arguments pushes one
\* call frame with one block frame whose return info is (name, next
\* instruction); that frame binds every captured name to its environment
\* address, the k-th parameter to the k-th argument and the closure's name
\* to the closure, and nothing else; every cell's refcount grows by the
\* number of these bindings to it; the program counter becomes the
\* closure's body address.
C7_CallSetUp ==
    [][AtCall =>
          LET def == current_instruction.definition
              closure_address == Lookup(frames, def.func)
              args == [k \in 1..Len(def.args) |-> Lookup(frames, def.args[k])]
              closure == memory[closure_address].heap_value
              new == TopBlock(frames')
          IN (closure.tag = "Closure" /\ Len(closure.arg_names) = Len(args)) =>
                /\ fault' = NoFault
                /\ Len(frames') = Len(frames) + 1
                /\ SubSeq(frames', 1, Len(frames)) = frames
                /\ Last(frames').nested_block_frames = <<new>>
                /\ new.return_info =
                       ReturnInfo(current_instruction.name,
                                  next(program_counter))
                /\ \A n \in DOMAIN closure.environment :
                      block_lookup_var(new, n) = closure.environment[n]
                /\ \A k \in 1..Len(args) :
                      block_lookup_var(new, closure.arg_names[k]) = args[k]
                /\ block_lookup_var(new, closure.name) = closure_address
                /\ Len(new.values) =
                       Cardinality(DOMAIN closure.environment) + Len(args) + 1
                /\ DOMAIN memory' = DOMAIN memory
                /\ \A a \in DOMAIN memory :
                      /\ memory'[a].heap_value = memory[a].heap_value
                      /\ memory'[a].refcount =
                             memory[a].refcount + CountIn(new.values, a)
                /\ program_counter' = closure.body]_vars

\* a closure without parameters and without captures has just been called:
\* its frame binds its own name and nothing else
C7_Witness ==
    /\ Running
    /\ Len(frames) >= 2
    /\ program_counter.block_index = 0
    /\ program_counter.instruction_index = 0
    /\ Len(TopBlock(frames).values) = 1
    /\ memory[TopBlock(frames).values[1]].heap_value.tag = "Closure"
    /\ memory[TopBlock(frames).values[1]].heap_value.arg_names = <<>>
    /\ memory[TopBlock(frames).values[1]].heap_value.environment = EmptyMap

\* C8: every call frame above the root carries the return info of a Call
\* assignment (its name, the instruction after it); a call frame is pushed
\* only by a Call and popped only by the ExitBlock that removes its last
\* block frame; that ExitBlock binds the result to the Call's name in the
\* innermost block frame of the caller, continues after the Call and leaves
\* one call frame less, the frames below the caller untouched.
C8_CallReturn ==
    /\ [](\A k \in 2..Len(frames) :
            /\ frames[k].nested_block_frames # <<>>
            /\ LET return_info == frames[k].nested_block_frames[1].return_info
                   call == get_instruction(
                               program, previous(return_info.return_address))
               IN /\ return_info # None
                  /\ return_info.return_address.instruction_index >= 1
                  /\ call.kind = "Assignment"
                  /\ call.definition.d = "Call"
                  /\ call.name = return_info.result_variable)
    /\ [][/\ Len(frames') > Len(frames) =>
                AtCall /\ Len(frames') = Len(frames) + 1
          /\ Len(frames') < Len(frames) =>
                /\ AtExit
                /\ Len(Last(frames).nested_block_frames) = 1
                /\ Len(frames') = Len(frames) - 1]_vars
    /\ [][(AtExit /\ Len(frames) >= 2
                  /\ Len(Last(frames).nested_block_frames) = 1) =>
             LET return_info == TopBlock(frames).return_info
                 caller == Len(frames) - 1
             IN /\ fault' = NoFault
                /\ Len(frames') = caller
                /\ SubSeq(frames', 1, caller - 1) = SubSeq(frames, 1, caller - 1)
                /\ Len(frames'[caller].nested_block_frames) =
                       Len(frames[caller].nested_block_frames)
                /\ block_lookup_var(TopBlock(frames'),
                                    return_info.result_variable) = ExitValue
                /\ program_counter' = return_info.return_address]_vars

\* a call made from inside a function has just returned: the caller is not
\* the root frame and the Call's name is bound in its innermost block frame
C8_Witness ==
    /\ Running
    /\ Len(frames) >= 2
    /\ program_counter.instruction_index >= 1
    /\ LET call == get_instruction(program, previous(program_counter))
       IN /\ call.kind = "Assignment"
          /\ call.definition.d = "Call"
          /\ call.name \in DOMAIN TopBlock(frames).variable_offsets

\* C9: the run starts at the EnterBlock of block 0 of function 0, toplevel,
\* on a stack of one call frame with one block frame without return info;
\* every other block frame carries return info; run returns a value exactly
\* when an ExitBlock pops that root frame, and the value is the heap content
\* of the ExitBlock's result cell at that moment.
C9_TerminationOnlyAtRoot ==
    /\ program_counter = TargetAddress(0, 0, 0)
    /\ current_instruction = EnterBlock
    /\ program.functions[1].name = "toplevel"
    /\ frames = <<[nested_block_frames |->
                     <<[values |-> <<>>, variable_offsets |-> EmptyMap,
                        return_info |-> None]>>]>>
    /\ [](\A k \in 1..Len(frames) :
            \A b \in 1..Len(frames[k].nested_block_frames) :
               (frames[k].nested_block_frames[b].return_info = None)
                   <=> (k = 1 /\ b = 1))
    /\ [][Terminated' <=>
             /\ AtExit
             /\ Len(frames) = 1
             /\ Len(frames[1].nested_block_frames) = 1]_vars
    /\ [][Terminated' =>
             /\ frames' = <<>>
             /\ result' = memory[ExitValue].heap_value]_vars

\* run has returned at the ExitBlock that popped the root frame
C9_Witness ==
    /\ Terminated
    /\ frames = <<>>
    /\ current_instruction.kind = "ExitBlock"

\* ------------------------------------------------------------------------
\* C11: two evaluators run on the same program pass through the same
\* sequence of program counters, stop together and return equal values
\* (addresses inside a returned tuple or closure included), whatever order
\* each of them iterates a closure's environment in when binding it at a
\* call.
\* ------------------------------------------------------------------------
C11_Determinism ==
    other # None =>
        /\ other.pc = program_counter
        /\ other.result = result
        /\ other.m.fault = fault

\* the two evaluators have bound an environment in different orders and
\* are at the same program counter, inside the callee
C11_Witness ==
    /\ other # None
    /\ Len(frames) = 2
    /\ other.m.frames # frames
    /\ other.pc = program_counter
    /\ other.m.memory = memory

\* ------------------------------------------------------------------------
\* C12: over any sequence of alloc, inc_refcount and dec_refcount, each
\* alloc returns an address strictly greater than every address an earlier
\* alloc returned, every key of the heap is an address alloc returned, and a
\* key that enters the heap is none of the addresses returned before: a
\* freed address is never a key again.
\* ------------------------------------------------------------------------
C12_AddressesNeverReused ==
    /\ [](client # None =>
            /\ \A i \in 1..Len(client.addresses) :
                  \A j \in 1..Len(client.addresses) :
                     i < j => client.addresses[i] < client.addresses[j]
            /\ DOMAIN memory \subseteq SeqRange(client.addresses))
    /\ [][client # None =>
            \A a \in DOMAIN memory' \ DOMAIN memory :
               /\ a \notin SeqRange(client.addresses)
               /\ client'.addresses = Append(client.addresses, a)]_vars

\* two addresses were freed, and a later alloc returned a greater address
\* that is now a key
C12_Witness ==
    /\ client # None
    /\ fault = NoFault
    /\ Len(client.addresses) >= 3
    /\ client.addresses[1] \notin DOMAIN memory
    /\ client.addresses[2] \notin DOMAIN memory
    /\ Last(client.addresses) \in DOMAIN memory
    /\ Last(client.addresses) > client.addresses[2]

\* ------------------------------------------------------------------------
\* C13: a step that frees cells without a fault is the transitive drop of
\* one cell root whose refcount was 1: every freed cell is reachable from
\* root, each freed cell other than root held exactly as many counts as the
\* freed cells contain occurrences of its address (tuple fields and closure
\* environment values, once per occurrence), every surviving cell keeps its
\* value and loses one count per such occurrence without reaching 0, so
\* that freeing an Int or a Bool changes no other cell and cells that are
\* not reachable from root keep their refcount. And a cell whose count goes
\* from 1 to 0 does not stay in the heap.
\* ------------------------------------------------------------------------

\* the occurrences of address b in the cells F of the heap mem
Occurrences(mem, F, b) ==
    Cardinality({<<c, k>> \in HeapSlots(mem, b) : c \in F})

TransitiveDrop(mem, after, root) ==
    LET F == DOMAIN mem \ DOMAIN after
    IN /\ root \in F
       /\ mem[root].refcount = 1
       /\ Occurrences(mem, F, root) = 0
       /\ F \subseteq Reach(mem, {root})
       /\ \A b \in F \ {root} : mem[b].refcount = Occurrences(mem, F, b)
       /\ \A b \in DOMAIN after :
             /\ b \in DOMAIN mem
             /\ after[b].heap_value = mem[b].heap_value
             /\ after[b].refcount = mem[b].refcount - Occurrences(mem, F, b)
             /\ Occurrences(mem, F, b) > 0 => after[b].refcount # 0
             /\ b \notin Reach(mem, {root}) =>
                    after[b].refcount = mem[b].refcount

C13_TransitiveDrop ==
    [][/\ (fault' = NoFault /\ DOMAIN memory \ DOMAIN memory' # {}) =>
             /\ heap_next_address' = heap_next_address
             /\ \E root \in DOMAIN memory :
                   TransitiveDrop(memory, memory', root)
       /\ \A a \in DOMAIN memory \cap DOMAIN memory' :
             memory[a].refcount = 1 => memory'[a].refcount # 0]_vars

\* the last call dropped a cell together with a cell it held, and a cell
\* with one count stays in the heap
C13_Witness ==
    /\ client # None
    /\ fault = NoFault
    /\ Cardinality(client.freed) >= 2
    /\ \E b \in DOMAIN memory : memory[b].refcount = 1

\* ------------------------------------------------------------------------
\* C14: a Set that writes into field i of a tuple the address the field
\* already holds does not fault and leaves the cell of that address in the
\* heap, with the refcount and the value it had before the step; field i
\* still holds the address.
\* ------------------------------------------------------------------------
C14_SetSameValue ==
    [][AtSet =>
          LET def == current_instruction.definition
              t == Lookup(frames, def.tuple)
              v == Lookup(frames, def.new_value)
          IN (/\ memory[t].heap_value.tag = "Tuple"
              /\ def.index < Len(memory[t].heap_value.field_values)
              /\ memory[t].heap_value.field_values[def.index + 1] = v) =>
                /\ fault' = NoFault
                /\ v \in DOMAIN memory'
                /\ memory'[v] = memory[v]
                /\ memory'[t].heap_value.field_values[def.index + 1] = v]_vars

\* let v = 1 in let t = (v) in let u = (t.0 = v) in t!!0 has just executed
\* its Set: the field holds v's cell, counted once for v and once for the
\* field
C14_Witness ==
    /\ program = let_normalize(ExprSetSame, FALSE).program
    /\ Running
    /\ program_counter.instruction_index > 0
    /\ executed.kind = "Assignment"
    /\ executed.definition.d = "Set"
    /\ memory[Lookup(frames, executed.definition.tuple)].heap_value
          .field_values[1] = Lookup(frames, executed.definition.new_value)
    /\ memory[Lookup(frames, executed.definition.new_value)].refcount = 2

\* ------------------------------------------------------------------------
\* C15: name = Set(t, i, v) with i below the length of t does not fault; it
\* replaces field i of the tuple cell by v's address and leaves the other
\* fields and the length as they were; v's refcount grows by one and the old
\* field's shrinks by one (the old cell is freed when that was its last
\* count), cells that the old cell does not reach keep their refcount; name
\* is bound to a freshly allocated empty tuple; and field i reads as v
\* through every variable and every tuple field that holds t's address.
\* ------------------------------------------------------------------------
C15_SetEffect ==
    [][AtSet =>
          LET def == current_instruction.definition
              t == Lookup(frames, def.tuple)
              v == Lookup(frames, def.new_value)
              i == def.index
              fields == memory[t].heap_value.field_values
              old == fields[i + 1]
              fresh_cell == heap_next_address
              Delta(a) == (IF a = v THEN 1 ELSE 0) - (IF a = old THEN 1 ELSE 0)
          IN (memory[t].heap_value.tag = "Tuple" /\ i < Len(fields)) =>
                /\ fault' = NoFault
                /\ program_counter' = next(program_counter)
                /\ memory'[t].heap_value =
                       HeapTuple([fields EXCEPT ![i + 1] = v])
                /\ v \in DOMAIN memory'
                /\ memory'[v].refcount = memory[v].refcount + Delta(v)
                /\ IF old \in DOMAIN memory'
                   THEN /\ memory'[old].refcount = memory[old].refcount + Delta(old)
                        /\ DOMAIN memory' = DOMAIN memory \cup {fresh_cell}
                        /\ \A a \in DOMAIN memory \ {v, old} :
                              memory'[a].refcount = memory[a].refcount
                   ELSE /\ memory[old].refcount + Delta(old) = 0
                        /\ \A a \in DOMAIN memory \ Reach(memory, {old}) :
                              /\ a \in DOMAIN memory'
                              /\ a # v => memory'[a].refcount = memory[a].refcount
                /\ fresh_cell \notin DOMAIN memory
                /\ heap_next_address' = fresh_cell + 1
                /\ memory'[fresh_cell] = RefCountedHeapValue(1, HeapTuple(<<>>))
                /\ frames' = set_var_no_refcount(CurrentMachine,
                                 current_instruction.name, fresh_cell).frames
                /\ \A n \in DOMAIN TopBlock(frames).variable_offsets :
                      Lookup(frames, n) = t =>
                         memory'[Lookup(frames', n)].heap_value
                            .field_values[i + 1] = v
                /\ \A c \in DOMAIN memory' :
                      \A k \in 1..Len(Contained(memory'[c].heap_value)) :
                         Contained(memory'[c].heap_value)[k] = t =>
                            memory'[Contained(memory'[c].heap_value)[k]]
                               .heap_value.field_values[i + 1] = v]_vars

\* a Set has just written field 1 of a tuple that two variables and a field
\* of another tuple hold; the field reads as the new value
C15_Witness ==
    /\ Running
    /\ program_counter.instruction_index > 0
    /\ executed.kind = "Assignment"
    /\ executed.definition.d = "Set"
    /\ LET t == Lookup(frames, executed.definition.tuple)
           v == Lookup(frames, executed.definition.new_value)
       IN /\ CountIn(TopBlock(frames).values, t) = 2
          /\ Cardinality(HeapSlots(memory, t)) = 1
          /\ memory[t].heap_value.field_values[executed.definition.index + 1] = v
          /\ memory[v].refcount = 2
          /\ Lookup(frames, executed.name) = heap_next_address - 1

\* the heap and the stack are after the step as they were before it
MachineUnchanged ==
    /\ memory' = memory
    /\ heap_next_address' = heap_next_address
    /\ frames' = frames

\* ------------------------------------------------------------------------
\* C16: Get(t, k) binds field k of the tuple when 0 <= k <= length - 1 and
\* is a fatal fault when k = length, k > length or k < 0; Set(t, i, v) with
\* i >= length is a fatal fault that leaves the fields of the tuple and
\* every refcount as they were.
\* ------------------------------------------------------------------------
C16_TupleIndexBounds ==
    /\ [][(AtBinOp /\ current_instruction.definition.op = "Get") =>
             LET def == current_instruction.definition
                 t == memory[Lookup(frames, def.lhs)].heap_value
                 index == memory[Lookup(frames, def.rhs)].heap_value
                 k == index.value
             IN (t.tag = "Tuple" /\ index.tag = "Int") =>
                   IF 0 <= k /\ k <= Len(t.field_values) - 1
                   THEN /\ fault' = NoFault
                        /\ Lookup(frames', current_instruction.name) =
                               t.field_values[k + 1]
                        /\ program_counter' = next(program_counter)
                   ELSE /\ fault' = "field index out of range"
                        /\ result' = None
                        /\ MachineUnchanged]_vars
    /\ [][AtSet =>
             LET def == current_instruction.definition
                 t == memory[Lookup(frames, def.tuple)].heap_value
             IN (t.tag = "Tuple" /\ def.index >= Len(t.field_values)) =>
                   /\ fault' = "tuple index out of range during mutation"
                   /\ result' = None
                   /\ MachineUnchanged]_vars

\* a Get with a negative index has faulted
C16_Witness ==
    /\ fault = "field index out of range"
    /\ current_instruction.definition.op = "Get"
    /\ memory[Lookup(frames, current_instruction.definition.rhs)]
          .heap_value.value < 0

\* ------------------------------------------------------------------------
\* C17: Add, Sub and Eq are a fatal fault when either operand is not an Int
\* (Eq on two Bools included), If when its condition is not a Bool, Call
\* when its callee is not a Closure; the faulting step allocates no cell,
\* pushes no frame and changes no refcount.
\* ------------------------------------------------------------------------
C17_TypeFaults ==
    /\ [][(AtBinOp /\ current_instruction.definition.op
                          \in {"Add", "Sub", "Eq"}) =>
             LET def == current_instruction.definition
                 lhs == memory[Lookup(frames, def.lhs)].heap_value
                 rhs == memory[Lookup(frames, def.rhs)].heap_value
             IN (lhs.tag # "Int" \/ rhs.tag # "Int") =>
                   /\ fault' # NoFault
                   /\ result' = None
                   /\ MachineUnchanged]_vars
    /\ [][AtIf =>
             LET condition ==
                     memory[Lookup(frames,
                                   current_instruction.definition.condition)]
                        .heap_value
             IN condition.tag # "Bool" =>
                   /\ fault' # NoFault
                   /\ result' = None
                   /\ MachineUnchanged]_vars
    /\ [][AtCall =>
             LET callee ==
                     memory[Lookup(frames, current_instruction.definition.func)]
                        .heap_value
             IN callee.tag # "Closure" =>
                   /\ fault' # NoFault
                   /\ result' = None
                   /\ MachineUnchanged]_vars

\* an Eq on two Bools has faulted
C17_Witness ==
    /\ fault # NoFault
    /\ current_instruction.definition.d = "BinOp"
    /\ current_instruction.definition.op = "Eq"
    /\ memory[Lookup(frames, current_instruction.definition.lhs)]
          .heap_value.tag = "Bool"
    /\ memory[Lookup(frames, current_instruction.definition.rhs)]
          .heap_value.tag = "Bool"

\* ------------------------------------------------------------------------
\* C18: a Call whose number of arguments differs from the closure's number
\* of parameters is a fatal fault; the stack and the heap are as they were
\* before the step (no call frame pushed, no refcount changed).
\* ------------------------------------------------------------------------
C18_ArgumentCountMismatch ==
    [][AtCall =>
          LET def == current_instruction.definition
              callee == memory[Lookup(frames, def.func)].heap_value
          IN (callee.tag = "Closure"
                 /\ Len(callee.arg_names) # Len(def.args)) =>
                /\ fault' = "incorrect number of arguments"
                /\ result' = None
                /\ program_counter' = program_counter
                /\ MachineUnchanged]_vars

\* a Call with two arguments of a closure with one parameter has faulted
C18_Witness ==
    /\ fault = "incorrect number of arguments"
    /\ Len(current_instruction.definition.args) = 2
    /\ Len(memory[Lookup(frames, current_instruction.definition.func)]
              .heap_value.arg_names) = 1
    /\ Len(frames) = 1

\* ------------------------------------------------------------------------
\* C19: lookup_var(name) returns the address that name has in the innermost
\* block frame of the top call frame that binds it, and is a fatal fault
\* when no block frame of the top call frame binds it, also when a call
\* frame below does; within a block frame a name has the address of its most
\* recent binding: set_var_no_refcount(name, value) makes name read as value
\* in the innermost block frame and changes no other name there and no
\* other block frame.
\* ------------------------------------------------------------------------

\* the block frames of the top call frame that bind name
Binders(fr, name) ==
    {b \in 1..Len(Last(fr).nested_block_frames) :
        block_lookup_var(Last(fr).nested_block_frames[b], name) # NotFound}

Innermost(S) == CHOOSE b \in S : \A c \in S : c <= b

C19_LookupScope ==
    /\ []((client # None /\ client.op = "lookup_var" /\ frames # <<>>) =>
            IF Binders(frames, client.name) # {}
            THEN /\ fault = NoFault
                 /\ client.value =
                        block_lookup_var(
                            Last(frames).nested_block_frames[
                                Innermost(Binders(frames, client.name))],
                            client.name)
            ELSE fault = "could not find variable in stack frame")
    /\ [][(client # None /\ client'.op = "set_var_no_refcount"
                         /\ fault' = NoFault) =>
             /\ Len(frames') = Len(frames)
             /\ Len(Last(frames').nested_block_frames) =
                    Len(Last(frames).nested_block_frames)
             /\ block_lookup_var(TopBlock(frames'), client'.name) =
                    client'.value
             /\ \A n \in {"x", "y"} \ {client'.name} :
                   block_lookup_var(TopBlock(frames'), n) =
                       block_lookup_var(TopBlock(frames), n)
             /\ \A fb \in BlockFramesOf(frames) :
                   (fb[1] # Len(frames)
                       \/ fb[2] # Len(Last(frames).nested_block_frames)) =>
                      frames'[fb[1]].nested_block_frames[fb[2]] =
                          frames[fb[1]].nested_block_frames[fb[2]]]_vars

\* a lookup has missed a name that the call frame below the top one binds
C19_Witness ==
    /\ client # None
    /\ client.op = "lookup_var"
    /\ fault = "could not find variable in stack frame"
    /\ Len(frames) = 2
    /\ Len(frames[2].nested_block_frames) = 2
    /\ \E b \in 1..Len(frames[1].nested_block_frames) :
          block_lookup_var(frames[1].nested_block_frames[b], client.name)
              # NotFound

\* ------------------------------------------------------------------------
\* C20: in every block of every function of a program the normalizer
\* emits, the first instruction is EnterBlock, the last one is ExitBlock,
\* each of the two occurs exactly once and every instruction between them
\* is an Assignment; so every block has at least these two instructions.
\* ------------------------------------------------------------------------
C20_BlockShape ==
    \A f \in 1..Len(program.functions) :
       \A b \in 1..Len(program.functions[f].blocks) :
          LET instructions == program.functions[f].blocks[b].instructions
          IN /\ Len(instructions) >= 2
             /\ instructions[1].kind = "EnterBlock"
             /\ instructions[Len(instructions)].kind = "ExitBlock"
             /\ \A i \in 2..(Len(instructions) - 1) :
                   instructions[i].kind = "Assignment"

\* the program has a function with the blocks of two If branches, one of
\* them made of EnterBlock and ExitBlock alone, and a block with
\* assignments between the two
C20_Witness ==
    \E f \in 1..Len(program.functions) :
       /\ f > 1
       /\ Len(program.functions[f].blocks) >= 3
       /\ \E b \in 1..Len(program.functions[f].blocks) :
             Len(program.functions[f].blocks[b].instructions) = 2
       /\ \E b \in 1..Len(program.functions[f].blocks) :
             Len(program.functions[f].blocks[b].instructions) > 3

\* ------------------------------------------------------------------------
\* Vocabulary of the properties of the build
\* ------------------------------------------------------------------------

\* let_normalize has returned a program (it is in program), and every later
\* call of the build is made on that program
Normalized == client.op \notin {"new", "written"} /\ client.e # None

\* the addresses (function, block, instruction), 0-based, of the program p
AddressesOf(p) ==
    UNION {UNION {{TargetAddress(f - 1, b - 1, i - 1) :
                      i \in 1..Len(p.functions[f].blocks[b].instructions)} :
                  b \in 1..Len(p.functions[f].blocks)} :
           f \in 1..Len(p.functions)}

\* the places of p that bind a name: the function f itself, its parameter
\* k, or the Assignment at an address
BindersOf(p) ==
    {<<"function", f, p.functions[f].name>> : f \in 1..Len(p.functions)}
        \cup UNION {{<<"parameter", f, k, p.functions[f].arg_names[k]>> :
                        k \in 1..Len(p.functions[f].arg_names)} :
                    f \in 1..Len(p.functions)}
        \cup {<<"assignment", a, get_instruction(p, a).name>> :
                 a \in {x \in AddressesOf(p) :
                           get_instruction(p, x).kind = "Assignment"}}

\* the name a binder binds
BoundName(binder) == binder[Len(binder)]

\* ------------------------------------------------------------------------
\* C21: in a program the normalizer emits no two binders (Assignment names,
\* parameter names, function names) of the whole program carry the same
\* name, also when the source binds a name several times or repeats a
\* parameter name; so the uniqueness assertion of compute_layout never
\* fails on the parameters, the free names or the locals of a block of such
\* a program.
\* ------------------------------------------------------------------------
C21_UniqueBinders ==
    (Normalized /\ Ok(client.normalizer)) =>
        /\ \A b1 \in BindersOf(program), b2 \in BindersOf(program) :
              BoundName(b1) = BoundName(b2) => b1 = b2
        /\ fault # "assertion failed: original_length == result.len()"
        /\ client.op = "compute_program_frame_layout" => fault = NoFault

\* the layout is computed of the program of an expression that binds x
\* twice, and of one whose function has two parameters x
C21_Witness ==
    /\ client.op = "compute_program_frame_layout"
    /\ client.e \in {ExprRebind, ExprRepeatedParam}
    /\ fault = NoFault
    /\ Cardinality({b \in BindersOf(program) : b[1] # "function"}) >= 2

\* the names an instruction refers to (a closure allocation refers to the
\* names it captures)
ReferencesOf(instruction) ==
    IF instruction.kind = "EnterBlock" THEN {}
    ELSE IF instruction.kind = "ExitBlock" THEN {instruction.var_name}
    ELSE LET def == instruction.definition
         IN IF def.d = "Var" THEN {def.var_name}
            ELSE IF def.d = "Literal" THEN {}
            ELSE IF def.d = "Tuple" THEN SeqRange(def.args)
            ELSE IF def.d = "Set" THEN {def.tuple, def.new_value}
            ELSE IF def.d = "BinOp" THEN {def.lhs, def.rhs}
            ELSE IF def.d = "Fun" THEN SeqRange(def.free_names)
            ELSE IF def.d = "Call" THEN {def.func} \cup SeqRange(def.args)
            ELSE {def.condition}

\* the names bound by the Assignments of the block before instruction i
\* (0-based)
AssignedBefore(block, i) ==
    {block.instructions[k].name :
        k \in {j \in 1..Len(block.instructions) :
                  j - 1 < i /\ block.instructions[j].kind = "Assignment"}}

\* the indices (0-based) of the Ifs of function f's block parent, in the
\* program p, that lead to block b
IfsLeadingTo(p, f, parent, b) ==
    {j \in 0..(Len(p.functions[f + 1].blocks[parent + 1].instructions) - 1) :
        LET instruction ==
                p.functions[f + 1].blocks[parent + 1].instructions[j + 1]
        IN /\ instruction.kind = "Assignment"
           /\ instruction.definition.d = "If"
           /\ \E target \in {instruction.definition.branch_success,
                             instruction.definition.branch_failure} :
                 target.function_index = f /\ target.block_index = b}

RECURSIVE AssignedInScope(_, _, _, _)

\* the names bound by an earlier Assignment of block b of function f, or by
\* an Assignment of an ancestor block that precedes the If leading to b
AssignedInScope(p, f, b, i) ==
    LET block == p.functions[f + 1].blocks[b + 1]
    IN AssignedBefore(block, i)
           \cup (IF block.parent_block_index = NotFound THEN {}
                 ELSE UNION {AssignedInScope(p, f, block.parent_block_index, j) :
                             j \in IfsLeadingTo(p, f, block.parent_block_index,
                                                b)})

\* the names function f (0-based) of p takes from outside its blocks: its
\* parameters, its own name and its free names
GivenNames(p, f) ==
    SeqRange(p.functions[f + 1].arg_names)
        \cup {p.functions[f + 1].name}
        \cup SeqRange(p.functions[f + 1].free_names.some)

\* ------------------------------------------------------------------------
\* C22: in a program the normalizer emits, every variable an instruction of
\* function f refers to is assigned by an earlier instruction of the same
\* block, or by an instruction of an ancestor block that precedes the If
\* leading to the block, or is a parameter of f, f's own name or one of f's
\* free names; and no lookup on the stack misses while the program runs.
\* ------------------------------------------------------------------------
C22_ReferencesResolve ==
    /\ \A a \in AddressesOf(program) :
          ReferencesOf(get_instruction(program, a)) \subseteq
              AssignedInScope(program, a.function_index, a.block_index,
                              a.instruction_index)
                  \cup GivenNames(program, a.function_index)
    /\ fault # "could not find variable in stack frame"

\* the run is in the function g nested in f, and has just added the x that
\* g captures through f to g's parameter
C22_Witness ==
    /\ program = let_normalize(ExprNestedCapture, FALSE).program
    /\ fault = NoFault
    /\ program_counter.function_index = 2
    /\ program_counter.instruction_index = 2
    /\ executed.kind = "Assignment"
    /\ executed.definition.d = "BinOp"
    /\ ReferencesOf(executed) \subseteq GivenNames(program, 2)
    /\ ReferencesOf(executed) \cap
           SeqRange(program.functions[3].free_names.some) # {}

\* the names the instructions of function f (0-based) of p refer to, in any
\* of its blocks
ReferencedIn(p, f) ==
    UNION {ReferencesOf(get_instruction(p, a)) :
           a \in {x \in AddressesOf(p) : x.function_index = f}}

\* the names function f (0-based) of p binds: those of its Assignments, its
\* parameters and its own name
BoundIn(p, f) ==
    {BoundName(b) :
        b \in {x \in BindersOf(p) :
                  \/ x[1] \in {"function", "parameter"} /\ x[2] = f + 1
                  \/ x[1] = "assignment" /\ x[2].function_index = f}}

\* the closure allocations of p: the definitions of its Fun Assignments
AllocationsOf(p) ==
    {get_instruction(p, a).definition :
        a \in {x \in AddressesOf(p) :
                  /\ get_instruction(p, x).kind = "Assignment"
                  /\ get_instruction(p, x).definition.d = "Fun"}}

\* ------------------------------------------------------------------------
\* C23: for every lifted function f, free_names(f) is exactly the set of
\* the names referred to in f's blocks (the blocks reached through If
\* targets and the free names of every closure allocated in f included)
\* that no Assignment of f, no parameter of f and not f's own name binds;
\* the closure allocation carries the same list. For
\* let x = 7 in let f = fun(y) -> x + y in f(35) the captured set of f is
\* the renamed x alone.
\* ------------------------------------------------------------------------
C23_FreeNamesExact ==
    (Normalized /\ Ok(client.normalizer)) =>
        /\ \A f \in 0..(Len(program.functions) - 1) :
              LET free_names == program.functions[f + 1].free_names.some
              IN /\ SeqRange(free_names) =
                        ReferencedIn(program, f) \ BoundIn(program, f)
                 /\ Cardinality(SeqRange(free_names)) = Len(free_names)
        /\ \A closure \in AllocationsOf(program) :
              closure.free_names =
                  program.functions[closure.body.function_index + 1]
                      .free_names.some
        /\ client.e = ExprCapture =>
               program.functions[2].free_names.some = <<"x__0">>

\* the x that the inner function g uses is captured by g and, through g's
\* closure allocation, by the function f around it; g's parameter and f's
\* are not
C23_Witness ==
    /\ client.op = "let_normalize"
    /\ client.e = ExprNestedCapture
    /\ fault = NoFault
    /\ program.functions[3].free_names.some = <<"x__0">>
    /\ program.functions[2].free_names.some = <<"x__0">>
    /\ \E closure \in AllocationsOf(program) :
          /\ closure.body.function_index = 2
          /\ closure.free_names = <<"x__0">>
    /\ SeqRange(program.functions[2].arg_names) \cap {"x__0"} = {}

RECURSIVE UsesUnbound(_, _)

\* the expression e uses a variable that none of the names in scope binds
\* and no let, parameter or function name around the use binds
UsesUnbound(e, scope) ==
    IF e.e = "Literal" THEN FALSE
    ELSE IF e.e = "Var" THEN e.var_name \notin scope
    ELSE IF e.e = "Fun"
    THEN UsesUnbound(e.body, scope \cup SeqRange(e.arg_names) \cup {e.name})
    ELSE IF e.e = "Let"
    THEN \/ UsesUnbound(e.definition, scope)
         \/ UsesUnbound(e.body, scope \cup {e.name})
    ELSE IF e.e = "If"
    THEN \E sub \in {e.condition, e.branch_success, e.branch_failure} :
            UsesUnbound(sub, scope)
    ELSE \E k \in 1..Len(operands(e)) : UsesUnbound(operands(e)[k], scope)

\* let_normalize has returned Err(..) to its caller
ReturnedErr == fault = NoFault /\ DOMAIN client.value = {"err"}

\* ------------------------------------------------------------------------
\* C24: normalizing an expression that uses a variable with no enclosing
\* binder (no let, parameter or function name in scope at the point of use)
\* makes let_normalize return an error result to its caller, not a program
\* and not an abort.
\* ------------------------------------------------------------------------
C24_UnresolvedNameIsErrorResult ==
    (client.op = "let_normalize" /\ UsesUnbound(client.e, {})) => ReturnedErr

\* the Ifs of p: the addresses of its If Assignments
IfsOf(p) ==
    {a \in AddressesOf(p) :
        /\ get_instruction(p, a).kind = "Assignment"
        /\ get_instruction(p, a).definition.d = "If"}

\* ------------------------------------------------------------------------
\* C25: in a program the normalizer emits, block 0 of every function is its
\* entry block and has no parent; every other block has a parent in the
\* same function with a smaller block index, so the parents form a tree
\* rooted at block 0; both targets of every If are (the function of the If,
\* a block whose parent is the block that holds the If, instruction 0); and
\* the body address of every closure is (the lifted function, block 0,
\* instruction 0).
\* ------------------------------------------------------------------------
C25_BlockTree ==
    (Normalized /\ Ok(client.normalizer)) =>
        /\ \A f \in 1..Len(program.functions) :
              LET blocks == program.functions[f].blocks
              IN /\ Len(blocks) >= 1
                 /\ blocks[1].parent_block_index = NotFound
                 /\ \A b \in 2..Len(blocks) :
                       /\ blocks[b].parent_block_index >= 0
                       /\ blocks[b].parent_block_index < b - 1
        /\ \A a \in IfsOf(program) :
              \A target \in {get_instruction(program, a).definition.branch_success,
                             get_instruction(program, a).definition.branch_failure} :
                 /\ target.function_index = a.function_index
                 /\ target.instruction_index = 0
                 /\ target.block_index <
                        Len(program.functions[a.function_index + 1].blocks)
                 /\ program.functions[a.function_index + 1]
                        .blocks[target.block_index + 1].parent_block_index =
                            a.block_index
        /\ \A closure \in AllocationsOf(program) :
              /\ closure.body.block_index = 0
              /\ closure.body.instruction_index = 0
              /\ closure.body.function_index > 0
              /\ closure.body.function_index < Len(program.functions)
              /\ program.functions[closure.body.function_index + 1].name =
                     closure.name

\* the program has an If in a branch of an If (a block whose parent has a
\* parent), or an If in the body of a lifted function
C25_Witness ==
    /\ client.op = "let_normalize"
    /\ fault = NoFault
    /\ \E a \in IfsOf(program) :
          \/ program.functions[a.function_index + 1]
                 .blocks[a.block_index + 1].parent_block_index # NotFound
          \/ a.function_index > 0
    /\ \E a \in IfsOf(program) :
          get_instruction(program, a).definition.branch_failure.block_index > 2

\* the instructions of the block the cursors <<function, block>> name, in p
BlockAt(p, at) == p.functions[at[1] + 1].blocks[at[2] + 1].instructions

\* ------------------------------------------------------------------------
\* C26: after normalize_block or normalize_function_body returns, the
\* normalizer's current function index and current block index are what
\* they were before the call. So the instruction emitted after a nested If
\* branch or a nested function (the If, the closure allocation) lands in
\* the block that was current before it, and the nested block was closed
\* before: no instruction of an outer block is emitted into a nested block
\* or a lifted function.
\* ------------------------------------------------------------------------
C26_CursorRestore ==
    /\ client.op = "let_normalize" =>
           \A k \in 1..Len(client.normalizer.returns) :
              client.normalizer.returns[k].after =
                  client.normalizer.returns[k].before
    /\ (client.op = "let_normalize" /\ Ok(client.normalizer)) =>
        /\ cursors(client.normalizer) = <<NotFound, NotFound>>
        /\ \A k \in 1..Len(client.normalizer.returns) :
              LET call == client.normalizer.returns[k]
              IN /\ (call.call = "normalize_block"
                        /\ call.before[2] # NotFound) =>
                       /\ \E i \in 1..Len(BlockAt(program, call.before)) :
                             LET instruction ==
                                     BlockAt(program, call.before)[i]
                             IN /\ instruction.kind = "Assignment"
                                /\ instruction.definition.d = "If"
                                /\ call.value \in
                                       {instruction.definition.branch_success,
                                        instruction.definition.branch_failure}
                       /\ Last(BlockAt(program,
                                       <<call.value.function_index,
                                         call.value.block_index>>)).kind =
                              "ExitBlock"
                 /\ (call.call = "normalize_function_body"
                        /\ call.before[1] # NotFound) =>
                       /\ \E i \in 1..Len(BlockAt(program, call.before)) :
                             BlockAt(program, call.before)[i] \in
                                 {Assignment(name, call.value) :
                                     name \in NamesOf(program)}
                       /\ call.value.body.function_index # call.before[1]

\* the normalizer has returned from a branch of an If that is in a branch of
\* another If, or from a function body nested in a function body
C26_Witness ==
    /\ client.op = "let_normalize"
    /\ fault = NoFault
    /\ \/ \E k \in 1..Len(client.normalizer.returns) :
             LET call == client.normalizer.returns[k]
             IN /\ call.call = "normalize_block"
                /\ call.before[2] > 0
                /\ call.after = call.before
       \/ \E k \in 1..Len(client.normalizer.returns) :
             LET call == client.normalizer.returns[k]
             IN /\ call.call = "normalize_function_body"
                /\ call.before[1] > 0
                /\ call.after = call.before

RECURSIVE EnclosingBlocks(_, _)

\* the block b of the function and the blocks around it, innermost first
EnclosingBlocks(function, b) ==
    IF b = NotFound THEN <<>>
    ELSE <<b>> \o EnclosingBlocks(function,
                                  function.blocks[b + 1].parent_block_index)

RECURSIVE LocalsAround(_, _)

\* how many names the blocks around the block b bind, b itself left out
LocalsAround(function, b) ==
    LET parent == function.blocks[b + 1].parent_block_index
    IN IF parent = NotFound THEN 0
       ELSE Len(block_names(function.blocks[parent + 1]))
                + LocalsAround(function, parent)

\* the position of n in names, counted from 0
PositionIn(names, n) == (CHOOSE k \in 1..Len(names) : names[k] = n) - 1

\* the innermost of the blocks around b, b included, that binds the name
BindingBlocks(function, b, name) ==
    SelectSeq(EnclosingBlocks(function, b),
              LAMBDA i : name \in SeqRange(block_names(function.blocks[i + 1])))

\* what the resolution order promises for the name in block b of the function
Resolved(function, b, name) ==
    IF BindingBlocks(function, b, name) # <<>>
    THEN LET i == Head(BindingBlocks(function, b, name))
         IN Some(Local(LocalsAround(function, i)
                           + PositionIn(block_names(function.blocks[i + 1]),
                                        name)))
    ELSE IF name \in SeqRange(function.arg_names)
    THEN Some(Argument(PositionIn(function.arg_names, name)))
    ELSE IF name = function.name THEN Some(This)
    ELSE IF name \in SeqRange(function.free_names.some)
    THEN Some(Closure(PositionIn(function.free_names.some, name)))
    ELSE None

\* lookup_var was called on a function and a block of the program
LookedUp ==
    /\ client.op = "lookup_var"
    /\ client.function_index < Len(program.functions)
    /\ client.block_index <
           Len(program.functions[client.function_index + 1].blocks)

\* C27: lookup_var(function, block, name) returns Local(k) when the block or
\* a block around it binds the name, k being the slot of the innermost such
\* block; otherwise Argument(k) when the name is the k-th parameter;
\* otherwise This when it is the function's own name; otherwise Closure(k)
\* when it is the k-th free name; otherwise it panics.
C27_ResolutionOrder ==
    LookedUp =>
        LET function == program.functions[client.function_index + 1]
            expected == Resolved(function, client.block_index, client.name)
        IN IF expected = None
           THEN /\ fault = "Failed to resolve variable offset"
                /\ client.value = None
           ELSE /\ fault = NoFault
                /\ client.value = expected.some

\* x is bound in block 0 and in block 1 of f: from block 2, which is in
\* block 1, it is the slot of block 1
C27_Witness ==
    /\ LookedUp
    /\ program = WrittenShadowing
    /\ client.function_index = 0
    /\ client.block_index = 2
    /\ client.name = "x"
    /\ client.value = Local(3)
    /\ fault = NoFault

\* the slots the layout gives to the locals of a block
SlotsOf(block_layout) ==
    {block_layout.offsets[n] : n \in DOMAIN block_layout.offsets}

\* C28: in the layout of every function, a block with no parent starts at
\* slot 0 and any other block starts at the end offset of its parent, which
\* is the parent's start plus the number of the parent's locals; the locals
\* of a block take the slots from its start up to its end, one each; so the
\* slots of a block are apart from those of every block around it.
C28_SlotOffsets ==
    client.layout # None =>
        \A f \in 1..Len(program.functions) :
           LET function == program.functions[f]
               layouts == client.layout.functions[f].blocks
           IN /\ Len(layouts) = Len(function.blocks)
              /\ \A b \in 1..Len(layouts) :
                    LET names == block_names(function.blocks[b])
                        parent == function.blocks[b].parent_block_index
                        start == layouts[b].start_offset
                    IN /\ layouts[b].parent_block_index = parent
                       /\ parent = NotFound => start = 0
                       /\ parent # NotFound =>
                             /\ start =
                                    layouts[parent + 1].start_offset
                                        + Len(block_names(
                                                  function.blocks[parent + 1]))
                             /\ start = end_offset(layouts[parent + 1])
                       /\ DOMAIN layouts[b].offsets = SeqRange(names)
                       /\ SlotsOf(layouts[b]) =
                              start..(start + Len(names) - 1)
                       /\ \A k \in 1..Len(names) :
                             layouts[b].offsets[names[k]] = start + (k - 1)
                       /\ \A a \in SeqRange(EnclosingBlocks(function,
                                                            b - 1)) :
                             a # b - 1 =>
                                 SlotsOf(layouts[b]) \cap SlotsOf(layouts[a + 1])
                                     = {}

\* the layout of the hand-written f: block 0 has the slots 0 and 1, block 1
\* in it the slots 2 and 3, block 2 in block 1 the slot 4, and block 3, the
\* other block in block 0, has the slot 2 again
C28_Witness ==
    /\ client.op = "compute_program_frame_layout"
    /\ fault = NoFault
    /\ program = WrittenShadowing
    /\ SlotsOf(client.layout.functions[1].blocks[1]) = {0, 1}
    /\ SlotsOf(client.layout.functions[1].blocks[2]) = {2, 3}
    /\ SlotsOf(client.layout.functions[1].blocks[3]) = {4}
    /\ SlotsOf(client.layout.functions[1].blocks[4]) = {2}

\* the step is dec_refcount(a) on a cell that alloc has returned and whose
\* count is still 0
DecOfUncounted(a) ==
    /\ fault = NoFault
    /\ a \in DOMAIN memory
    /\ memory[a].refcount = 0
    /\ Called(dec_refcount(CurrentMachine, a))

\* C29: dec_refcount on an address alloc has returned, and that was not
\* incremented since (refcount 0), removes the cell from the heap and
\* faults nothing, so that alloc followed by dec discards an unused value.
C29_DecDiscardsFreshAllocation ==
    [][\A a \in SeqRange(client.addresses) :
          DecOfUncounted(a) => (fault' = NoFault /\ a \notin DOMAIN memory')]_vars

\* let t = (1) in let u = (t.0 = t) in 42, normalized
CycleProgram == let_normalize(ExprCycle, FALSE).program

\* the cells that hold their own address in a field
SelfHeld(mem) ==
    {c \in DOMAIN mem :
        /\ mem[c].heap_value.tag = "Tuple"
        /\ c \in SeqRange(mem[c].heap_value.field_values)}

\* C30: the run of a program that stores a tuple into its own field
\* (t = (x); Set(t, 0, t)) raises no fault, and when it has returned the
\* tuple is still in the heap with refcount 1 while no stack slot holds its
\* address.
C30_CycleNotReclaimed ==
    program = CycleProgram =>
        /\ fault = NoFault
        /\ Terminated =>
              /\ result = HeapInt(42)
              /\ \E c \in SelfHeld(memory) :
                    /\ memory[c] = RefCountedHeapValue(1, HeapTuple(<<c>>))
                    /\ StackSlots(frames, c) = {}
                    /\ HeapSlots(memory, c) = {<<c, 1>>}

\* the run of the program has returned 42 and has left the tuple, which is
\* the only cell of the heap
C30_Witness ==
    /\ program = CycleProgram
    /\ Terminated
    /\ fault = NoFault
    /\ frames = <<>>
    /\ \E c \in DOMAIN memory :
          /\ DOMAIN memory = {c}
          /\ memory[c] = RefCountedHeapValue(1, HeapTuple(<<c>>))

\* let_normalize has returned or panicked
Normalizing == client.op = "let_normalize"

\* the Assignments of the program p, whatever block they are in
AssignmentsOf(p) ==
    UNION {UNION {{p.functions[f].blocks[b].instructions[i] :
                      i \in {i \in 1..Len(p.functions[f].blocks[b].instructions) :
                                p.functions[f].blocks[b].instructions[i].kind
                                    = "Assignment"}} :
                  b \in 1..Len(p.functions[f].blocks)} :
           f \in 1..Len(p.functions)}

\* C31: every with_substitution(from, to, f) that returns leaves the
\* substitution map as it found it, whether it was entered for a Let body,
\* a function name or a parameter; so the map is empty again when
\* let_normalize returns, a name a Let binds inside one operand is not
\* found in the next operand, and after an inner let of x the name x means
\* the outer x again.
C31_SubstitutionScoping ==
    Normalizing =>
        /\ \A k \in 1..Len(client.normalizer.scopes) :
              client.normalizer.scopes[k].after =
                  client.normalizer.scopes[k].before
        /\ Ok(client.normalizer) =>
              client.normalizer.var_substitution = EmptyMap
        /\ client.e = ExprBinOp("Add", ExprLet("x", IntLit(1), ExprVar("x")),
                                ExprVar("x")) =>
              fault = "could not find substitution"
        /\ client.e = ExprInnerRebind =>
              /\ Ok(client.normalizer)
              /\ Assignment("x__0", Literal(ConstInt(1)))
                     \in AssignmentsOf(program)
              /\ Assignment("x__1", Literal(ConstInt(2)))
                     \in AssignmentsOf(program)
              /\ \E a \in AssignmentsOf(program) :
                    a.definition = BinOp("Add", "x__1", "x__0")

\* let x = 1 in (let x = 2 in x) + x is normalized: the inner let of x
\* found x mapped to x__0 and has put that mapping back
C31_Witness ==
    /\ Normalizing
    /\ fault = NoFault
    /\ client.e = ExprInnerRebind
    /\ \E k \in 1..Len(client.normalizer.scopes) :
          LET scope == client.normalizer.scopes[k]
          IN /\ scope.from = "x"
             /\ scope.before = MapPut(EmptyMap, "x", "x__0")
             /\ scope.after = scope.before

\* the function that normalize_function_body has lifted out of the
\* expression let _ = fun .. in .., which is the second of the program
LiftedFunction == program.functions[2]

\* the name the body of the lifted function returns
ReturnedName == Last(LiftedFunction.blocks[1].instructions).var_name

\* C38: in fun f(f) -> f the f of the body is normalized to the fresh name
\* of the function, not to that of the parameter; in a function with two
\* parameters of one source name, a use of the name is normalized to the
\* fresh name of the last of them.
C38_SelfNameAndRepeatedParameter ==
    (Normalizing /\ client.e \in
         {ExprSelfNamedParam, ExprRepeatedParam, ExprFirstLastParam}) =>
        /\ Ok(client.normalizer)
        /\ Len(LiftedFunction.arg_names) = Len(client.e.definition.arg_names)
        /\ Cardinality(SeqRange(LiftedFunction.arg_names) \cup
                           {LiftedFunction.name}) =
               Len(LiftedFunction.arg_names) + 1
        /\ Last(LiftedFunction.blocks[1].instructions).kind = "ExitBlock"
        /\ client.e = ExprSelfNamedParam =>
              /\ ReturnedName = LiftedFunction.name
              /\ ReturnedName \notin SeqRange(LiftedFunction.arg_names)
        /\ client.e \in {ExprRepeatedParam, ExprFirstLastParam} =>
              /\ ReturnedName = Last(LiftedFunction.arg_names)
              /\ ReturnedName # Head(LiftedFunction.arg_names)

\* fun f(f) -> f is normalized to the function f__0 of the parameter f__1,
\* whose body returns f__0
C38_Witness ==
    /\ Normalizing
    /\ fault = NoFault
    /\ client.e = ExprSelfNamedParam
    /\ LiftedFunction.name = "f__0"
    /\ LiftedFunction.arg_names = <<"f__1">>
    /\ ReturnedName = "f__0"

\* the names fresh("__gen") has made
GenNames ==
    {"__gen__" \o ToString(k) : k \in 0..client.normalizer.var_counter}

\* the names a step uses as operands, in the order of the source operands
OperandNames(definition) ==
    IF definition.d = "Call" THEN <<definition.func>> \o definition.args
    ELSE IF definition.d = "BinOp" THEN <<definition.lhs, definition.rhs>>
    ELSE IF definition.d = "Tuple" THEN definition.args
    ELSE IF definition.d = "Set"
    THEN <<definition.tuple, definition.new_value>>
    ELSE IF definition.d = "If" THEN <<definition.condition>>
    ELSE <<>>

\* where the instructions assign the name: 0 when they do not
AssignedAt(instructions, name) ==
    IF \E j \in 1..Len(instructions) :
          instructions[j].kind = "Assignment" /\ instructions[j].name = name
    THEN CHOOSE j \in 1..Len(instructions) :
             instructions[j].kind = "Assignment" /\ instructions[j].name = name
    ELSE 0

RECURSIVE Atomic(_)

\* a source expression that is normalized to a plain variable
Atomic(e) == e.e = "Var" \/ (e.e = "Let" /\ Atomic(e.body))

RECURSIVE GeneratedBy(_), GeneratedByOperand(_), GeneratedByOperands(_)

\* how many operands within the source expression e, e left out, are not
\* plain variables; the body of a function and the branches of an If are
\* operands of their block
GeneratedBy(e) ==
    IF e.e \in {"Literal", "Var"} THEN 0
    ELSE IF e.e = "Fun" THEN GeneratedByOperand(e.body)
    ELSE IF e.e = "Let" THEN GeneratedBy(e.definition) + GeneratedBy(e.body)
    ELSE IF e.e = "If"
    THEN GeneratedByOperands(<<e.condition, e.branch_success,
                               e.branch_failure>>)
    ELSE GeneratedByOperands(operands(e))

GeneratedByOperand(e) == GeneratedBy(e) + (IF Atomic(e) THEN 0 ELSE 1)

GeneratedByOperands(exprs) ==
    IF exprs = <<>> THEN 0
    ELSE GeneratedByOperand(Head(exprs)) + GeneratedByOperands(Tail(exprs))

\* C32: in every block of the program let_normalize returns, an Assignment
\* whose step is a Call, BinOp, Tuple, Set or If comes after the
\* Assignments of the generated names it uses, which are in the same block
\* and in the order of the operands (function before arguments, lhs before
\* rhs, fields in order, tuple before new value, condition before the If,
\* whose branches are later blocks, the first before the second); the
\* program has one generated Assignment for each operand of the source
\* that is not a plain variable, and none for one that is.
C32_LeftToRightEmission ==
    (Normalizing /\ Ok(client.normalizer)) =>
        /\ \A f \in 1..Len(program.functions) :
           \A b \in 1..Len(program.functions[f].blocks) :
              LET instructions == program.functions[f].blocks[b].instructions
              IN \A i \in 1..Len(instructions) :
                    instructions[i].kind = "Assignment" =>
                        LET definition == instructions[i].definition
                            names == SelectSeq(OperandNames(definition),
                                               LAMBDA n : n \in GenNames)
                        IN /\ \A k \in 1..Len(names) :
                                 /\ AssignedAt(instructions, names[k]) >= 1
                                 /\ AssignedAt(instructions, names[k]) < i
                           /\ \A k \in 1..(Len(names) - 1) :
                                 AssignedAt(instructions, names[k]) <
                                     AssignedAt(instructions, names[k + 1])
                           /\ definition.d = "If" =>
                                 /\ b - 1 < definition.branch_success
                                                .block_index
                                 /\ definition.branch_success.block_index <
                                        definition.branch_failure.block_index
        /\ Cardinality({a \in AssignmentsOf(program) : a.name \in GenNames}) =
               GeneratedByOperand(client.e)

\* the Call of ExprOperands is normalized: its function and its first and
\* third arguments are generated names assigned in that order before the
\* Call, its second argument is the variable x__0
C32_Witness ==
    /\ Normalizing
    /\ fault = NoFault
    /\ client.e = ExprOperands
    /\ LET instructions == program.functions[1].blocks[3].instructions
       IN \E i \in 1..Len(instructions) :
             /\ instructions[i].kind = "Assignment"
             /\ instructions[i].definition =
                    Call("__gen__12", <<"__gen__14", "x__0", "__gen__17">>)
             /\ AssignedAt(instructions, "__gen__12") >= 1
             /\ AssignedAt(instructions, "__gen__12") <
                    AssignedAt(instructions, "__gen__14")
             /\ AssignedAt(instructions, "__gen__14") <
                    AssignedAt(instructions, "__gen__17")
             /\ AssignedAt(instructions, "__gen__17") < i
             /\ AssignedAt(instructions, "x__0") = 0

\* the addresses the stack slots hold
StackHeld(fr) ==
    UNION {UNION {SeqRange(fr[f].nested_block_frames[b].values) :
                     b \in 1..Len(fr[f].nested_block_frames)} :
           f \in 1..Len(fr)}

\* the addresses the tuple fields and closure environments hold
HeapHeld(mem) == UNION {SeqRange(Contained(mem[c].heap_value)) : c \in DOMAIN mem}

\* C33: in the run of a program let_normalize has emitted, with or without
\* Set steps, every address that a stack slot, a tuple field or a closure
\* environment entry holds at an instruction boundary is a key of the
\* heap, and no deref, inc_refcount, dec_refcount or free meets an invalid
\* pointer.
C33_NoDanglingAddress ==
    /\ fault \notin {"invalid pointer", "attempt to free invalid pointer"}
    /\ fault = NoFault =>
          /\ StackHeld(frames) \subseteq DOMAIN memory
          /\ HeapHeld(memory) \subseteq DOMAIN memory

\* a program with a Set step is running and the Set has stored a tuple into
\* its own field: a stack slot and a tuple field hold the tuple's address
C33_Witness ==
    /\ Running
    /\ HasSet(program)
    /\ \E c \in SelfHeld(memory) :
          /\ c \in StackHeld(frames)
          /\ c \in HeapHeld(memory)
          /\ memory[c].refcount = 2

\* the names the block at the program counter assigns
AssignedHere ==
    SeqRange(block_names(program.functions[program_counter.function_index + 1]
                             .blocks[program_counter.block_index + 1]))

\* C34: whenever an ExitBlock(v) is about to execute, v is bound in the
\* block frame that exit_block pops, also when the exiting block does not
\* assign v; no run reaches the panic "could not find return value of
\* block in block local variables".
C34_ExitBlockFindsResult ==
    /\ fault #
           "could not find return value of block in block local variables"
    /\ AtExit =>
          /\ frames # <<>>
          /\ Last(frames).nested_block_frames # <<>>
          /\ current_instruction.var_name \in
                 DOMAIN TopBlock(frames).variable_offsets
          /\ block_lookup_var(TopBlock(frames), current_instruction.var_name)
                 \in DOMAIN memory

\* the ExitBlock of an If branch in a called function is about to return a
\* parameter of the function, which the branch does not assign
C34_Witness ==
    /\ AtExit
    /\ Len(frames) = 2
    /\ program_counter.block_index > 0
    /\ current_instruction.var_name \notin AssignedHere
    /\ current_instruction.var_name \in
           SeqRange(program.functions[program_counter.function_index + 1]
                        .arg_names)
    /\ current_instruction.var_name \in
           DOMAIN TopBlock(frames).variable_offsets

\* the return infos the block frames of the stack hold
ReturnInfosOf(fr) ==
    {fr[f].nested_block_frames[b].return_info :
        <<f, b>> \in UNION {{<<f, b>> : b \in 1..Len(fr[f].nested_block_frames)} :
                            f \in 1..Len(fr)}} \ {None}

\* C35: no block of a program let_normalize has emitted ends in an
\* Assignment; while the run has neither returned nor panicked the program
\* counter names an instruction of the program, the stack holds a call
\* frame, every call frame holds a block frame, and every return address
\* held in a return info names an instruction of the program; no run
\* reaches the panics of get_instruction or of an empty stack.
C35_ProgramCounterValid ==
    /\ \A f \in 1..Len(program.functions) :
       \A b \in 1..Len(program.functions[f].blocks) :
          LET instructions == program.functions[f].blocks[b].instructions
          IN /\ instructions # <<>>
             /\ Last(instructions).kind = "ExitBlock"
    /\ fault \notin {"invalid function index", "invalid block index",
                     "invalid instruction index", "stack should not be empty",
                     "exiting block while no more block frames"}
    /\ Running =>
          /\ HasInstruction(program, program_counter)
          /\ frames # <<>>
          /\ \A f \in 1..Len(frames) : frames[f].nested_block_frames # <<>>
          /\ \A return_info \in ReturnInfosOf(frames) :
                /\ HasInstruction(program, return_info.return_address)
                /\ return_info.return_address.instruction_index >= 1
                /\ get_instruction(program,
                                   previous(return_info.return_address)).kind
                       = "Assignment"

\* a called function is running: the return info of its frame holds the
\* address of the instruction after the Call
C35_Witness ==
    /\ Running
    /\ Len(frames) >= 2
    /\ program_counter.function_index >= 1
    /\ TopBlock(frames).return_info # None
    /\ HasInstruction(program, TopBlock(frames).return_info.return_address)
    /\ get_instruction(program,
                       previous(TopBlock(frames).return_info.return_address))
           .definition.d = "Call"

\* a program with a Call step
HasCall(p) == \E a \in AssignmentsOf(p) : a.definition.d = "Call"

\* the program counter has moved forward in the toplevel function: to a
\* later instruction of its block, or to a later block
MovedForward ==
    /\ program_counter.function_index = 0
    /\ program_counter'.function_index = 0
    /\ \/ program_counter'.block_index > program_counter.block_index
       \/ /\ program_counter'.block_index = program_counter.block_index
          /\ program_counter'.instruction_index >
                 program_counter.instruction_index

\* the step() that run() calls next does something: the state after it is
\* not the state before it
StepActs ==
    \A hash_flip \in BOOLEAN :
       step(CurrentMachine, hash_flip) #
           Outcome(CurrentMachine, program_counter, None)

\* C36: the run of a program without a Call step returns unless it panics,
\* and executes no instruction twice. As long as the run has neither
\* returned nor panicked the program counter names an instruction of the
\* toplevel function and the next step() acts; every step that does not
\* end the run moves the program counter forward within the toplevel
\* function, so the steps are at most as many as its instructions and the
\* loop of run() ends.
C36_TerminationWithoutCalls ==
    /\ []((Running /\ ~HasCall(program)) =>
             /\ program_counter.function_index = 0
             /\ HasInstruction(program, program_counter)
             /\ StepActs)
    /\ [][(Running /\ ~HasCall(program)) =>
             IF Running' THEN MovedForward
             ELSE program_counter' = program_counter]_vars

\* the run of a program with an If and no Call has returned from the
\* ExitBlock of a branch
C36_Witness ==
    /\ ~HasCall(program)
    /\ Terminated
    /\ fault = NoFault
    /\ program_counter.function_index = 0
    /\ program_counter.block_index > 0
    /\ current_instruction.kind = "ExitBlock"

\* C37: when the run of a program without a Set step has returned a tuple
\* or a closure, none of the addresses the returned value holds (tuple
\* fields, environment entries) is a key of the heap any more.
C37_ReturnedCopyHoldsFreedAddresses ==
    (Terminated /\ ~HasSet(program)
         /\ result.tag \in {"Tuple", "Closure"}) =>
        /\ fault = NoFault
        /\ SeqRange(Contained(result)) \cap DOMAIN memory = {}

\* the run of let x = 7 in fun f(y) -> x + y has returned a closure whose
\* environment holds the address that x had, and the heap is empty
C37_Witness ==
    /\ Terminated
    /\ ~HasSet(program)
    /\ result.tag = "Closure"
    /\ DOMAIN result.environment = {"x__0"}
    /\ result.environment["x__0"] \notin DOMAIN memory
    /\ result.environment["x__0"] < heap_next_address

====
